---- MODULE Spec2Model ----
(***************************************************************************)
(* Model of the psycopg protocol engine: the Connection (serialization     *)
(* lock, Connection.wait, scope exit, close), the Cursor result-set engine *)
(* and the Pipeline nesting/queue.                                         *)
(*                                                                         *)
(* Three specifications share the variables below:                         *)
(*   Spec         - concurrent callers of one Connection                   *)
(*   SpecCursor   - one Cursor driven by one caller                        *)
(*   SpecPipeline - pipeline mode of one Connection, one caller            *)
(***************************************************************************)
EXTENDS Integers, Sequences, FiniteSets, TLC

\* ------------------------------------------------------------------ bounds
NumThreads == 2
MaxParamSets == 2
MaxResults == 2
MaxRows == 2
MaxSize == 3
MaxQueue == 3
MaxLevel == 3
MaxIResult == 4
MaxPipes == 2
MaxScroll == 2
MaxRowNumber == 4
MaxParams == 2
MaxSends == 3
MaxMsgs == 3
MaxBatch == 2

VARIABLES
    \* ---- Connection, concurrent callers
    lock,        \* Connection.lock: the thread holding it, or NoThread
    closed,      \* Connection._closed
    pool,        \* Connection._pool is set (the connection belongs to a pool)
    closedBy,    \* which method made the connection closed
    pc,          \* per thread: position inside the running operation
    op,          \* per thread: the public operation being run
    cur,         \* per thread: the locked operation currently executed
    exc,         \* per thread: exception propagating at the current position
    intr,        \* per thread: the running Connection.wait was interrupted
    second,      \* per thread: how the wait after the cancel request ended
    cancels,     \* per thread: cancel requests sent by the running wait
    left,        \* per thread: parameter sets executemany still has to send
    body,        \* per thread: __exit__ was called with an exception
    wasOpen,     \* per thread: the connection was open when __exit__ began
    sent,        \* per thread: commit/rollback issued by the running __exit__
    logged,      \* per thread: __exit__ logged a swallowed rollback error
    res,         \* per thread: what the last finished operation raised
    \* ---- Cursor
    results,     \* BaseCursor._results
    pgresult,    \* BaseCursor.pgresult
    pos,         \* BaseCursor._pos
    iresult,     \* BaseCursor._iresult
    cpc,         \* "wait" while an execute/executemany is inside conn.wait
    pending,     \* parameter sets the running operation still has to run
    inflight,    \* results the running generator has received so far
    last,        \* the last cursor call: name, input, return value, error
    \* ---- Pipeline
    pipeline,    \* Connection._pipeline: the Pipeline object or None
    level,       \* per Pipeline object: Pipeline.level
    stack,       \* pipeline() blocks the caller is inside, innermost last
    queue,       \* pending operations not answered yet, oldest first
    delivered,   \* per submitted operation: the reply it was given
    submitted,   \* number of operations submitted so far
    replies,     \* number of replies the server produced so far
    plast,       \* the last pipeline step and what it did
    \* ---- Server Cursor
    sstate,      \* "none" before conn.cursor(name); UNBOUND, OPEN, CLOSED
    scrollable,  \* ServerCursor.scrollable: "True", "False", "None"
    rownumber,   \* ServerCursor.rownumber: <<>> for None, <<n>> for n
    srows,       \* server side: number of rows of the declared query
    spos,        \* server side: rows of it the cursor is past
    slast,       \* the last server-cursor call and what it did
    \* ---- tpc_recover, one caller
    tstatus,     \* Connection.info.transaction_status
    autocommit,  \* Connection.autocommit
    rpc,         \* position of the caller inside tpc_recover
    rstatus,     \* tpc_recover: the local variable status
    rafter,      \* tpc_recover: the status found after the catalog query
    rollbacks,   \* tpc_recover: calls of self.rollback() by the running call
    rlast,       \* how the last tpc_recover call ended
    txby,        \* the caller whose statement began the open transaction
    \* ---- Connection.pipeline(), concurrent callers
    ppc,         \* per thread: position inside Connection.pipeline()
    pstack,      \* per thread: the local "pipeline" of each of its blocks
    perr,        \* per thread: what its last exit of a block raised
    \* ---- what a Cursor hands to the transport
    binary,      \* Cursor.binary: the result format the cursor asks for
    outbox,      \* the sends issued to pgconn and not yet taken by it
    \* ---- Connection.notifies()
    npc,         \* where the generator is
    nbatch,      \* ns: the messages of the batch not yet yielded
    nrecv,       \* every message the waits returned, in order
    nyield,      \* every Notify the generator yielded, in order
    nerr,        \* the error that ended the generator
    \* ---- Connection.transaction()
    xpc,         \* "body" while the caller is inside the block
    xmgrs,       \* the context managers the "with" statement has entered
    xfr,         \* force_rollback
    xlog,        \* what the block did so far, with the level it was done at
    xbefore,     \* the active pipeline and its level when the block began
    xres         \* what the block raised when it was left

connVars == <<lock, closed, pool, closedBy, pc, op, cur, exc, intr, second,
              cancels, left, body, wasOpen, sent, logged, res>>
cursorVars == <<results, pgresult, pos, iresult, cpc, pending, inflight, last>>
pipeVars == <<pipeline, level, stack, queue, delivered, submitted, replies, plast>>
serverVars == <<sstate, scrollable, rownumber, srows, spos, slast>>
tpcVars ==
    <<tstatus, autocommit, rpc, rstatus, rafter, rollbacks, rlast, txby>>
pthrVars == <<ppc, pstack, perr>>
sendVars == <<binary, outbox>>
notifVars == <<npc, nbatch, nrecv, nyield, nerr>>
xactVars == <<xpc, xmgrs, xfr, xlog, xbefore, xres>>
vars ==
    <<connVars, cursorVars, pipeVars, serverVars, tpcVars, pthrVars, sendVars,
      notifVars, xactVars>>

NoThread == 0
Threads == 1..NumThreads

\* =====================================================================
\*  Connection: concurrent callers, the lock and Connection.wait
\* =====================================================================

\* How one call of waiting.wait(gen, ...) can end: with a value, with a
\* database error (QueryCanceled, ObjectNotInPrerequisiteState or another
\* one) or with an interrupt.
WaitOutcomes == {"ok", "QueryCanceled", "ObjectNotInPrerequisiteState",
                 "DatabaseError", "KeyboardInterrupt"}

\* _INTERRUPTED = KeyboardInterrupt, which is not an Exception subclass
_INTERRUPTED == "KeyboardInterrupt"
IsException(x) == x \notin {"none", _INTERRUPTED}

\* pgconn.status as read by the callers
ConnStatuses == {"OK", "BAD", "STARTED"}

\* pgconn.status once close() has called pgconn.finish() is BAD
PgStatus == IF closed THEN {"BAD"} ELSE ConnStatuses

\* Operations whose body is "with self.lock: self.wait(gen)"
LockedOps == {"commit", "rollback", "set_autocommit", "set_isolation_level",
              "set_read_only", "set_deferrable", "tpc_begin", "tpc_prepare",
              "tpc_commit", "tpc_rollback", "notifies"}
CursorOps == {"execute", "executemany"}

\* What _execute_results can raise
ClassifyOutcomes == {"none", "DatabaseError", "ProgrammingError", "InternalError"}

\* Connection.wait as a function of how the first waiting.wait ended and,
\* when that was an interrupt, how the one after the cancel request ended.
waitAbsorbsNothing(first, snd) ==
    IF first # _INTERRUPTED THEN first
    ELSE IF snd = "ok" THEN _INTERRUPTED ELSE snd

\* A Connection.wait whose except clause ends without the bare raise
waitReturnsAfterCancel(first, snd) ==
    IF first # _INTERRUPTED THEN first
    ELSE IF snd \in {"ok", "QueryCanceled"} THEN "ok" ELSE snd

wait(first, snd) ==
    IF first # _INTERRUPTED
    THEN first                      \* return the value / let the error out
    ELSE IF snd \in {"ok", "QueryCanceled"}
         THEN _INTERRUPTED          \* "as expected"; bare raise
         ELSE snd                   \* any other error, or a new interrupt

\* The exception a wait outcome stands for ("none" when it is a value)
Raised(x) == IF x = "ok" THEN "none" ELSE x

InWait(t) == pc[t] \in {"wait1", "cancel", "wait2"}

ConnInit ==
    /\ lock = NoThread
    /\ closed = FALSE
    /\ pool \in BOOLEAN
    /\ closedBy = "none"
    /\ pc = [t \in Threads |-> "idle"]
    /\ op = [t \in Threads |-> "none"]
    /\ cur = [t \in Threads |-> "none"]
    /\ exc = [t \in Threads |-> "none"]
    /\ intr = [t \in Threads |-> FALSE]
    /\ second = [t \in Threads |-> "none"]
    /\ cancels = [t \in Threads |-> 0]
    /\ left = [t \in Threads |-> 0]
    /\ body = [t \in Threads |-> FALSE]
    /\ wasOpen = [t \in Threads |-> FALSE]
    /\ sent = [t \in Threads |-> "none"]
    /\ logged = [t \in Threads |-> FALSE]
    /\ res = [t \in Threads |-> "none"]

\* What follows "with self.lock:" up to the call of waiting.wait, for the
\* locked operation c over n parameter sets: Cursor.execute and executemany
\* check pgconn.status in _execute_send before they send; executemany over
\* an empty sequence leaves the block at once; the others call self.wait.
Enter(t, c, n) ==
    /\ lock' = t
    /\ cur' = [cur EXCEPT ![t] = c]
    /\ left' = [left EXCEPT ![t] = n]
    /\ \E s \in PgStatus :
        IF c \in CursorOps /\ n = 0
        THEN /\ pc' = [pc EXCEPT ![t] = "waited"]
             /\ exc' = exc
        ELSE IF c \in CursorOps /\ s # "OK"
        THEN /\ pc' = [pc EXCEPT ![t] = "waited"]
             /\ exc' = [exc EXCEPT ![t] = "InterfaceError"]
        ELSE /\ pc' = [pc EXCEPT ![t] = "wait1"]
             /\ exc' = exc

\* A caller runs a locked operation without waiting for the lock
CallNoExclusion(t, o) ==
    /\ pc[t] = "idle"
    /\ op' = [op EXCEPT ![t] = o]
    /\ Enter(t, o, 0)
    /\ UNCHANGED <<closed, pool, closedBy, intr, second, cancels, body,
                   wasOpen, sent, logged, res>>
    /\ UNCHANGED <<cursorVars, pipeVars, serverVars, tpcVars, pthrVars, sendVars, notifVars, xactVars>>

\* A caller runs one of the operations "with self.lock: self.wait(gen)", or
\* pulls from notifies(): the call goes on once the lock is free.
Call(t, o) ==
    /\ pc[t] = "idle"
    /\ lock = NoThread
    /\ op' = [op EXCEPT ![t] = o]
    /\ Enter(t, o, 0)
    /\ UNCHANGED <<closed, pool, closedBy, intr, second, cancels, body,
                   wasOpen, sent, logged, res>>
    /\ UNCHANGED <<cursorVars, pipeVars, serverVars, tpcVars, pthrVars, sendVars, notifVars, xactVars>>

\* Cursor.execute, or Cursor.executemany over n parameter sets
CallCursor(t, o, n) ==
    /\ pc[t] = "idle"
    /\ lock = NoThread
    /\ o = "execute" => n = 1
    /\ op' = [op EXCEPT ![t] = o]
    /\ Enter(t, o, n)
    /\ UNCHANGED <<closed, pool, closedBy, intr, second, cancels, body,
                   wasOpen, sent, logged, res>>
    /\ UNCHANGED <<cursorVars, pipeVars, serverVars, tpcVars, pthrVars, sendVars, notifVars, xactVars>>

\* self.rollback() / self.commit() called by __exit__ gets the lock.
Acquire(t) ==
    /\ pc[t] = "acquire"
    /\ lock = NoThread
    /\ Enter(t, sent[t], 0)
    /\ UNCHANGED <<closed, pool, closedBy, op, intr, second, cancels, body,
                   wasOpen, sent, logged, res>>
    /\ UNCHANGED <<cursorVars, pipeVars, serverVars, tpcVars, pthrVars, sendVars, notifVars, xactVars>>

\* The first waiting.wait of Connection.wait ends.
Wait1(t, r) ==
    /\ pc[t] = "wait1"
    /\ IF r = _INTERRUPTED
       THEN /\ pc' = [pc EXCEPT ![t] = "cancel"]
            /\ intr' = [intr EXCEPT ![t] = TRUE]
            /\ exc' = exc
       ELSE /\ pc' = [pc EXCEPT ![t] = "waited"]
            /\ exc' = [exc EXCEPT ![t] = Raised(wait(r, "none"))]
            /\ intr' = intr
    /\ UNCHANGED <<lock, closed, pool, closedBy, op, cur, second, cancels,
                   left, body, wasOpen, sent, logged, res>>
    /\ UNCHANGED <<cursorVars, pipeVars, serverVars, tpcVars, pthrVars, sendVars, notifVars, xactVars>>

\* An except clause that waits again without the cancel request
TryCancelSkipped(t) ==
    /\ pc[t] = "cancel"
    /\ pc' = [pc EXCEPT ![t] = "wait2"]
    /\ UNCHANGED <<lock, closed, pool, closedBy, op, cur, exc, intr, second,
                   cancels, left, body, wasOpen, sent, logged, res>>
    /\ UNCHANGED <<cursorVars, pipeVars, serverVars, tpcVars, pthrVars, sendVars, notifVars, xactVars>>

\* except _INTERRUPTED: self._try_cancel(self.pgconn)
TryCancel(t) ==
    /\ pc[t] = "cancel"
    /\ cancels' = [cancels EXCEPT ![t] = @ + 1]
    /\ pc' = [pc EXCEPT ![t] = "wait2"]
    /\ UNCHANGED <<lock, closed, pool, closedBy, op, cur, exc, intr, second,
                   left, body, wasOpen, sent, logged, res>>
    /\ UNCHANGED <<cursorVars, pipeVars, serverVars, tpcVars, pthrVars, sendVars, notifVars, xactVars>>

\* The waiting.wait after the cancel request ends.
Wait2(t, r) ==
    /\ pc[t] = "wait2"
    /\ second' = [second EXCEPT ![t] = r]
    /\ exc' = [exc EXCEPT ![t] = wait(_INTERRUPTED, r)]
    /\ pc' = [pc EXCEPT ![t] = "waited"]
    /\ UNCHANGED <<lock, closed, pool, closedBy, op, cur, intr, cancels,
                   left, body, wasOpen, sent, logged, res>>
    /\ UNCHANGED <<cursorVars, pipeVars, serverVars, tpcVars, pthrVars, sendVars, notifVars, xactVars>>

\* Connection.__exit__ that lets the error of its rollback out
ExitAfterReraises(s, e) ==
    [res |-> e, logged |-> (s = "rollback" /\ IsException(e))]

\* Connection.__exit__ after its call s (self.rollback() or self.commit())
\* ended with exception e ("none": it returned): what __exit__ raises there
\* and whether it logged a warning.  "except Exception" does not catch
\* KeyboardInterrupt.
ExitAfter(s, e) ==
    IF s = "rollback" /\ IsException(e)
    THEN [res |-> "none", logged |-> TRUE]
    ELSE [res |-> e, logged |-> FALSE]

\* Connection.tpc_prepare without its except clause
tpc_prepare_untranslated(e) == e

\* Connection.tpc_prepare: what it raises when its "with self.lock:" block
\* ended with exception e ("none": it returned).
\* except e.ObjectNotInPrerequisiteState: raise e.NotSupportedError
tpc_prepare(e) ==
    IF e = "ObjectNotInPrerequisiteState" THEN "NotSupportedError" ELSE e

\* A lock released only by the statement after the block
ReleaseOnReturn(t, e) == IF e = "none" THEN NoThread ELSE t

\* "with self.lock:" is left with exception e propagating ("none": the block
\* returned): the lock's __exit__ releases it either way.
Release(t, e) == NoThread

\* Leaving "with self.lock:" and the rest of the operation that runs without
\* a further suspension: e is the exception propagating out of the block.
Finish(t, e) ==
    /\ lock' = Release(t, e)
    /\ intr' = [intr EXCEPT ![t] = FALSE]
    /\ second' = [second EXCEPT ![t] = "none"]
    /\ cancels' = [cancels EXCEPT ![t] = 0]
    /\ left' = [left EXCEPT ![t] = 0]
    /\ cur' = [cur EXCEPT ![t] = "none"]
    /\ IF op[t] = "exit"
       THEN /\ op' = op
            /\ exc' = [exc EXCEPT ![t] = e]
            /\ logged' = [logged EXCEPT ![t] = ExitAfter(sent[t], e).logged]
            /\ res' = [res EXCEPT ![t] = ExitAfter(sent[t], e).res]
            /\ pc' = [pc EXCEPT ![t] =
                        IF ExitAfter(sent[t], e).res = "none"
                        THEN "exit_close" ELSE "done"]
       ELSE IF op[t] = "tpc_prepare"
       THEN \* the except clause runs after the block released the lock
            /\ op' = op
            /\ exc' = [exc EXCEPT ![t] = e]
            /\ res' = [res EXCEPT ![t] = tpc_prepare(e)]
            /\ pc' = [pc EXCEPT ![t] = "done"]
            /\ UNCHANGED logged
       ELSE /\ op' = [op EXCEPT ![t] = "none"]
            /\ exc' = [exc EXCEPT ![t] = "none"]
            /\ pc' = [pc EXCEPT ![t] = "idle"]
            /\ UNCHANGED <<logged, res>>
    /\ UNCHANGED <<closed, pool, closedBy, body, wasOpen, sent>>

\* The classification of the results of one execution by _execute_results,
\* for the callers the contents of the results do not matter to.
Classified(t) ==
    IF cur[t] \in CursorOps /\ exc[t] = "none" /\ left[t] > 0
    THEN ClassifyOutcomes
    ELSE {exc[t]}

\* What runs between the end of Connection.wait and the next suspension:
\* _execute_results for a cursor operation, the next parameter set of
\* executemany, or the end of the "with self.lock:" block.
\* An executemany that takes the lock anew for each parameter set
NextParamsUnlocked(t) ==
    /\ left' = [left EXCEPT ![t] = @ - 1]
    /\ pc' = [pc EXCEPT ![t] = "wait1"]
    /\ lock' = NoThread
    /\ UNCHANGED <<closed, pool, closedBy, op, cur, exc, intr, second,
                   cancels, body, wasOpen, sent, logged, res>>

\* The next iteration of "for vars in vars_seq" in executemany, inside the
\* same "with self.conn.lock:": _execute_send sends the next parameter set.
NextParams(t) ==
    /\ left' = [left EXCEPT ![t] = @ - 1]
    /\ pc' = [pc EXCEPT ![t] = "wait1"]
    /\ UNCHANGED <<lock, closed, pool, closedBy, op, cur, exc, intr, second,
                   cancels, body, wasOpen, sent, logged, res>>

AfterWait(t) ==
    /\ pc[t] = "waited"
    /\ \E e \in Classified(t) :
        IF cur[t] = "executemany" /\ e = "none" /\ left[t] > 1
        THEN \* _execute_send checks pgconn.status first
             \E s \in PgStatus :
                IF s = "OK"
                THEN NextParams(t)
                ELSE Finish(t, "InterfaceError")
        ELSE Finish(t, e)
    /\ UNCHANGED <<cursorVars, pipeVars, serverVars, tpcVars, pthrVars, sendVars, notifVars, xactVars>>

\* Connection.__exit__(exc_type, ...): b says an exception is propagating
\* from the body of the "with conn:" block.
ExitEnter(t, b) ==
    /\ pc[t] = "idle"
    /\ op' = [op EXCEPT ![t] = "exit"]
    /\ body' = [body EXCEPT ![t] = b]
    /\ wasOpen' = [wasOpen EXCEPT ![t] = ~closed]
    /\ logged' = [logged EXCEPT ![t] = FALSE]
    /\ res' = [res EXCEPT ![t] = "none"]
    /\ IF closed
       THEN \* if self.closed: return
            /\ pc' = [pc EXCEPT ![t] = "done"]
            /\ sent' = [sent EXCEPT ![t] = "none"]
       ELSE /\ pc' = [pc EXCEPT ![t] = "acquire"]
            /\ sent' = [sent EXCEPT ![t] = IF b THEN "rollback" ELSE "commit"]
    /\ UNCHANGED <<lock, closed, pool, closedBy, cur, exc, intr, second,
                   cancels, left>>
    /\ UNCHANGED <<cursorVars, pipeVars, serverVars, tpcVars, pthrVars, sendVars, notifVars, xactVars>>

\* Connection.close()
close(by) ==
    IF closed
    THEN UNCHANGED <<closed, closedBy>>
    ELSE /\ closed' = TRUE
         /\ closedBy' = by

\* The end of Connection.__exit__ that closes a pool's connection too
ExitCloseAlways(t) ==
    /\ pc[t] = "exit_close"
    /\ close("exit")
    /\ pc' = [pc EXCEPT ![t] = "done"]
    /\ UNCHANGED <<lock, pool, op, cur, exc, intr, second, cancels, left,
                   body, wasOpen, sent, logged, res>>
    /\ UNCHANGED <<cursorVars, pipeVars, serverVars, tpcVars, pthrVars, sendVars, notifVars, xactVars>>

\* The end of Connection.__exit__: close unless the connection has a pool.
ExitClose(t) ==
    /\ pc[t] = "exit_close"
    /\ IF ~pool THEN close("exit") ELSE UNCHANGED <<closed, closedBy>>
    /\ pc' = [pc EXCEPT ![t] = "done"]
    /\ UNCHANGED <<lock, pool, op, cur, exc, intr, second, cancels, left,
                   body, wasOpen, sent, logged, res>>
    /\ UNCHANGED <<cursorVars, pipeVars, serverVars, tpcVars, pthrVars, sendVars, notifVars, xactVars>>

\* __exit__ or tpc_prepare has returned or raised; the caller goes on.
ExitReturn(t) ==
    /\ pc[t] = "done"
    /\ pc' = [pc EXCEPT ![t] = "idle"]
    /\ op' = [op EXCEPT ![t] = "none"]
    /\ body' = [body EXCEPT ![t] = FALSE]
    /\ wasOpen' = [wasOpen EXCEPT ![t] = FALSE]
    /\ sent' = [sent EXCEPT ![t] = "none"]
    /\ logged' = [logged EXCEPT ![t] = FALSE]
    /\ res' = [res EXCEPT ![t] = "none"]
    /\ exc' = [exc EXCEPT ![t] = "none"]
    /\ UNCHANGED <<lock, closed, pool, closedBy, cur, intr, second,
                   cancels, left>>
    /\ UNCHANGED <<cursorVars, pipeVars, serverVars, tpcVars, pthrVars, sendVars, notifVars, xactVars>>

\* A caller calls Connection.close() on an open connection.
Close(t) ==
    /\ pc[t] = "idle"
    /\ ~closed
    /\ close("close")
    /\ UNCHANGED <<lock, pool, pc, op, cur, exc, intr, second, cancels, left,
                   body, wasOpen, sent, logged, res>>
    /\ UNCHANGED <<cursorVars, pipeVars, serverVars, tpcVars, pthrVars, sendVars, notifVars, xactVars>>

Next ==
    \E t \in Threads :
        \/ \E o \in LockedOps : Call(t, o)
        \/ \E o \in CursorOps, n \in 0..MaxParamSets : CallCursor(t, o, n)
        \/ Acquire(t)
        \/ \E r \in WaitOutcomes : Wait1(t, r)
        \/ TryCancel(t)
        \/ \E r \in WaitOutcomes : Wait2(t, r)
        \/ AfterWait(t)
        \/ \E b \in BOOLEAN : ExitEnter(t, b)
        \/ ExitClose(t)
        \/ ExitReturn(t)
        \/ Close(t)

\* =====================================================================
\*  Cursor: the result-set engine, one caller
\* =====================================================================

\* pq.ExecStatus
ExecStatus == {"EMPTY_QUERY", "COMMAND_OK", "TUPLES_OK", "COPY_OUT", "COPY_IN",
               "BAD_RESPONSE", "NONFATAL_ERROR", "FATAL_ERROR", "COPY_BOTH",
               "SINGLE_TUPLE"}

\* "pgresult is None"
NoResult == [status |-> "None", ntuples |-> 0, command_tuples |-> -1,
             sqlstate |-> ""]

\* A PGresult: its status, its number of rows, the affected-row count of its
\* command tag (-1 when the tag carries none) and, for an error, the
\* SQLSTATE the exception is built from.
PGresult ==
    [status : {"TUPLES_OK"}, ntuples : 0..MaxRows, command_tuples : {-1},
     sqlstate : {""}]
    \cup [status : {"COMMAND_OK"}, ntuples : {0},
          command_tuples : -1..MaxRows, sqlstate : {""}]
    \cup [status : {"FATAL_ERROR"}, ntuples : {0}, command_tuples : {-1},
          sqlstate : {"42601", "42P01"}]
    \cup [status : ExecStatus \ {"TUPLES_OK", "COMMAND_OK", "FATAL_ERROR"},
          ntuples : {0}, command_tuples : {-1}, sqlstate : {""}]

\* BaseCursor.arraysize
arraysize == 1

NoError == "none"

\* What the caller saw of the last call: the operation, the error raised
\* and the result it was built from, the rows returned, the value nextset
\* returned, the results the wait returned, and the size argument of
\* fetchmany.  For executemany, size is the number of parameter sets and flag
\* is "single" as long as every parameter set executed so far was answered
\* by one command-complete result reporting one affected row.
Last(o, e, f, rv, fl, inp, sz) ==
    [op |-> o, err |-> e, from |-> f, ret |-> rv, flag |-> fl, input |-> inp,
     size |-> sz]

CursorInit ==
    /\ results = <<>>
    /\ pgresult = NoResult
    /\ pos = 0
    /\ iresult = 0
    /\ cpc = "idle"
    /\ pending = 0
    /\ inflight = <<>>
    /\ last = Last("init", NoError, NoResult, <<>>, "-", <<>>, 0)

\* BaseCursor.rowcount, which counts the rows still to fetch
rowcountRemaining ==
    IF pgresult = NoResult \/ pgresult.status # "TUPLES_OK"
    THEN -1
    ELSE pgresult.ntuples - pos

\* BaseCursor.rowcount
rowcount ==
    IF pgresult = NoResult \/ pgresult.status # "TUPLES_OK"
    THEN -1
    ELSE pgresult.ntuples

\* The statuses of the results that execute() does not accept
badstats(rs) ==
    {rs[i].status : i \in DOMAIN rs} \ {"TUPLES_OK", "COMMAND_OK", "EMPTY_QUERY"}

\* _execute_results testing the COPY statuses before the final fatal error
_execute_results_copy_first(rs) ==
    IF rs = <<>>
    THEN [type |-> "InternalError", from |-> NoResult, ok |-> FALSE]
    ELSE IF badstats(rs) = {}
    THEN [type |-> NoError, from |-> NoResult, ok |-> TRUE]
    ELSE IF badstats(rs) \cap {"COPY_IN", "COPY_OUT", "COPY_BOTH"} # {}
    THEN [type |-> "ProgrammingError", from |-> NoResult, ok |-> FALSE]
    ELSE IF rs[Len(rs)].status = "FATAL_ERROR"
    THEN [type |-> "DatabaseError", from |-> rs[Len(rs)], ok |-> FALSE]
    ELSE [type |-> "InternalError", from |-> NoResult, ok |-> FALSE]

\* _execute_results reporting a COPY status as an unexpected status
_execute_results_no_copy(rs) ==
    IF rs = <<>>
    THEN [type |-> "InternalError", from |-> NoResult, ok |-> FALSE]
    ELSE IF badstats(rs) = {}
    THEN [type |-> NoError, from |-> NoResult, ok |-> TRUE]
    ELSE IF rs[Len(rs)].status = "FATAL_ERROR"
    THEN [type |-> "DatabaseError", from |-> rs[Len(rs)], ok |-> FALSE]
    ELSE [type |-> "InternalError", from |-> NoResult, ok |-> FALSE]

\* BaseCursor._execute_results: whether the results are buffered, and else
\* the error raised and the result it is built from.
_execute_results(rs) ==
    IF rs = <<>>
    THEN [type |-> "InternalError", from |-> NoResult, ok |-> FALSE]
    ELSE IF badstats(rs) = {}
    THEN [type |-> NoError, from |-> NoResult, ok |-> TRUE]
    ELSE IF rs[Len(rs)].status = "FATAL_ERROR"
    THEN [type |-> "DatabaseError", from |-> rs[Len(rs)], ok |-> FALSE]
    ELSE IF badstats(rs) \cap {"COPY_IN", "COPY_OUT", "COPY_BOTH"} # {}
    THEN [type |-> "ProgrammingError", from |-> NoResult, ok |-> FALSE]
    ELSE [type |-> "InternalError", from |-> NoResult, ok |-> FALSE]

\* The buffering of _execute_results that loads the last result
BufferedLast(rs) == [results |-> rs, pgresult |-> rs[Len(rs)]]

\* The buffering of _execute_results: self._results = results;
\* self.pgresult = results[0]
Buffered(rs) == [results |-> rs, pgresult |-> rs[1]]

\* The runs of Connection.wait: how the first waiting.wait ends and, after an
\* interrupt, how the second one does.
WaitRuns ==
    {<<w, "none">> : w \in WaitOutcomes \ {_INTERRUPTED}}
    \cup {<<_INTERRUPTED, w>> : w \in WaitOutcomes}

\* An _execute_send that sends without the reset
SendNoReset ==
    /\ inflight' = <<>>
    /\ cpc' = "wait"
    /\ UNCHANGED <<results, pgresult, pos, iresult>>

\* BaseCursor._reset() followed by the send of _execute_send
SendReset ==
    /\ results' = <<>>
    /\ pgresult' = NoResult
    /\ pos' = 0
    /\ iresult' = 0
    /\ inflight' = <<>>
    /\ cpc' = "wait"

\* A status check with one message for every status that is not OK
_execute_send_check_one_message(s) ==
    IF s = "OK" THEN NoError
    ELSE "cannot execute operations: the connection is closed"

\* The status check that opens _execute_send: the message of the
\* InterfaceError it raises when pgconn.status is s, NoError when it passes.
_execute_send_check(s) ==
    IF s = "OK" THEN NoError
    ELSE IF s = "BAD"
    THEN "cannot execute operations: the connection is closed"
    ELSE "cannot execute operations: the connection is in status " \o s

\* Cursor.execute(query, vars) up to the call of self.conn.wait(gen):
\* _execute_send checks pgconn.status (s), resets the cursor and sends.
Execute(s) ==
    /\ cpc = "idle"
    /\ IF _execute_send_check(s) # NoError
       THEN /\ last' = Last("execute", "InterfaceError", NoResult, <<>>,
                            _execute_send_check(s), <<>>, 0)
            /\ UNCHANGED <<results, pgresult, pos, iresult, inflight, cpc, pending>>
       ELSE /\ SendReset
            /\ pending' = 1
            /\ last' = Last("execute", NoError, NoResult, <<>>, "-", <<>>, 0)
    /\ UNCHANGED <<connVars, pipeVars, serverVars, tpcVars, pthrVars, sendVars, notifVars, xactVars>>

\* The server answered a parameter set as a one-row INSERT.
Single(rs) ==
    /\ Len(rs) = 1
    /\ rs[1].status = "COMMAND_OK"
    /\ rs[1].command_tuples = 1

\* Cursor.executemany(query, vars_seq) over n parameter sets, up to the first
\* call of self.conn.wait(gen); with n = 0 the loop body never runs.
ExecuteMany(n, s) ==
    /\ cpc = "idle"
    /\ IF n = 0
       THEN /\ last' = Last("executemany", NoError, NoResult, <<>>, "-", <<>>, 0)
            /\ UNCHANGED <<results, pgresult, pos, iresult, inflight, cpc, pending>>
       ELSE IF _execute_send_check(s) # NoError
       THEN /\ last' = Last("executemany", "InterfaceError", NoResult, <<>>,
                            _execute_send_check(s), <<>>, 0)
            /\ UNCHANGED <<results, pgresult, pos, iresult, inflight, cpc, pending>>
       ELSE /\ SendReset
            /\ pending' = n
            /\ last' = Last("executemany", NoError, NoResult, <<>>, "single", <<>>, n)
    /\ UNCHANGED <<connVars, pipeVars, serverVars, tpcVars, pthrVars, sendVars, notifVars, xactVars>>

\* The generator driven by Connection.wait gets one more result of the
\* running execution from the transport.
Receive(r) ==
    /\ cpc = "wait"
    /\ Len(inflight) < MaxResults
    /\ inflight' = Append(inflight, r)
    /\ UNCHANGED <<results, pgresult, pos, iresult, pending, cpc, last>>
    /\ UNCHANGED <<connVars, pipeVars, serverVars, tpcVars, pthrVars, sendVars, notifVars, xactVars>>

\* The operation stops with error e (raised inside "with self.conn.lock:").
Raise(e, f, inp) ==
    /\ cpc' = "idle"
    /\ pending' = 0
    /\ inflight' = <<>>
    /\ last' = Last(last.op, e, f, <<>>,
                    IF last.flag = "single" /\ Single(inp) THEN "single" ELSE "-",
                    inp, last.size)

\* The _execute_send of a later parameter set of executemany fails its
\* status check with message m.
RaiseUnsent(m) ==
    /\ cpc' = "idle"
    /\ pending' = 0
    /\ inflight' = <<>>
    /\ last' = Last(last.op, "InterfaceError", NoResult, <<>>, m, <<>>,
                    last.size)

\* self.conn.wait(gen) ends after the run w and the rest of execute or of
\* the executemany iteration follows: _execute_results, then the return or
\* the _execute_send of the next parameter set (s is pgconn.status then).
WaitEnds(w, s) ==
    /\ cpc = "wait"
    /\ LET waited == wait(w[1], w[2])
           cls == _execute_results(inflight)
       IN  IF waited # "ok"
           THEN /\ s = "OK"
                /\ Raise(waited, NoResult, <<>>)
                /\ UNCHANGED <<results, pgresult, pos, iresult>>
           ELSE IF ~cls.ok
           THEN /\ s = "OK"
                /\ Raise(cls.type, cls.from, inflight)
                /\ UNCHANGED <<results, pgresult, pos, iresult>>
           ELSE IF pending > 1 /\ _execute_send_check(s) = NoError
           THEN /\ SendReset
                /\ pending' = pending - 1
                /\ last' = Last(last.op, NoError, NoResult, <<>>,
                                IF last.flag = "single" /\ Single(inflight)
                                THEN "single" ELSE "-",
                                <<>>, last.size)
           ELSE /\ pending = 1 => s = "OK"
                /\ results' = Buffered(inflight).results
                /\ pgresult' = Buffered(inflight).pgresult
                /\ UNCHANGED <<pos, iresult>>
                /\ IF pending > 1
                   THEN RaiseUnsent(_execute_send_check(s))
                   ELSE Raise(NoError, NoResult, inflight)
    /\ UNCHANGED <<connVars, pipeVars, serverVars, tpcVars, pthrVars, sendVars, notifVars, xactVars>>

\* BaseCursor.nextset that leaves the loaded result alone
nextsetKeepsResult ==
    /\ iresult' = iresult + 1
    /\ IF iresult + 1 < Len(results)
       THEN /\ pgresult' = pgresult
            /\ pos' = 0
            /\ last' = Last("nextset", NoError, NoResult, <<>>, "True", <<>>, 0)
       ELSE /\ UNCHANGED <<pgresult, pos>>
            /\ last' = Last("nextset", NoError, NoResult, <<>>, "None", <<>>, 0)
    /\ UNCHANGED <<results, pending, inflight, cpc>>

\* BaseCursor.nextset that moves to the next result at the old row position
nextsetKeepsPos ==
    /\ iresult' = iresult + 1
    /\ IF iresult + 1 < Len(results)
       THEN /\ pgresult' = results[iresult + 2]
            /\ pos' = pos
            /\ last' = Last("nextset", NoError, NoResult, <<>>, "True", <<>>, 0)
       ELSE /\ UNCHANGED <<pgresult, pos>>
            /\ last' = Last("nextset", NoError, NoResult, <<>>, "None", <<>>, 0)
    /\ UNCHANGED <<results, pending, inflight, cpc>>

\* BaseCursor.nextset()
nextset ==
    /\ iresult' = iresult + 1
    /\ IF iresult + 1 < Len(results)
       THEN /\ pgresult' = results[iresult + 2]   \* self._results[self._iresult]
            /\ pos' = 0
            /\ last' = Last("nextset", NoError, NoResult, <<>>, "True", <<>>, 0)
       ELSE /\ UNCHANGED <<pgresult, pos>>
            /\ last' = Last("nextset", NoError, NoResult, <<>>, "None", <<>>, 0)
    /\ UNCHANGED <<results, pending, inflight, cpc>>

Nextset ==
    /\ cpc = "idle"
    /\ iresult < MaxIResult
    /\ nextset
    /\ UNCHANGED <<connVars, pipeVars, serverVars, tpcVars, pthrVars, sendVars, notifVars, xactVars>>

\* BaseCursor._load_row(n): the error raised, or the row (NoRow for None).
\* A row is identified by its index in the result.
NoRow == -1

\* _load_row taking a result that produced no rows for an exhausted one
_load_row_unchecked(n) ==
    IF pgresult = NoResult
    THEN [err |-> "ProgrammingError", row |-> NoRow]
    ELSE IF n >= pgresult.ntuples
    THEN [err |-> NoError, row |-> NoRow]
    ELSE [err |-> NoError, row |-> n]

\* _load_row finding the end of the result one row too late
_load_row_past_end(n) ==
    IF pgresult = NoResult
    THEN [err |-> "ProgrammingError", row |-> NoRow]
    ELSE IF pgresult.status # "TUPLES_OK"
    THEN [err |-> "ProgrammingError", row |-> NoRow]
    ELSE IF n > pgresult.ntuples
    THEN [err |-> NoError, row |-> NoRow]
    ELSE [err |-> NoError, row |-> n]

_load_row(n) ==
    IF pgresult = NoResult
    THEN [err |-> "ProgrammingError", row |-> NoRow]
    ELSE IF pgresult.status # "TUPLES_OK"
    THEN [err |-> "ProgrammingError", row |-> NoRow]
    ELSE IF n >= pgresult.ntuples
    THEN [err |-> NoError, row |-> NoRow]
    ELSE [err |-> NoError, row |-> n]

\* Cursor.fetchone()
Fetchone ==
    /\ cpc = "idle"
    /\ LET rv == _load_row(pos)
       IN  /\ pos' = IF rv.err = NoError /\ rv.row # NoRow THEN pos + 1 ELSE pos
           /\ last' = Last("fetchone", rv.err, NoResult,
                           IF rv.row = NoRow THEN <<>> ELSE <<rv.row>>,
                           "-", <<>>, 0)
    /\ UNCHANGED <<results, pgresult, iresult, pending, inflight, cpc>>
    /\ UNCHANGED <<connVars, pipeVars, serverVars, tpcVars, pthrVars, sendVars, notifVars, xactVars>>

\* One step of "for rec in cur": the next row of the current result, or the
\* end of the iteration when there is none.
Iter ==
    /\ cpc = "idle"
    /\ LET rv == _load_row(pos)
       IN  /\ pos' = IF rv.err = NoError /\ rv.row # NoRow THEN pos + 1 ELSE pos
           /\ last' = Last("iter", rv.err, NoResult,
                           IF rv.row = NoRow THEN <<>> ELSE <<rv.row>>,
                           "-", <<>>, 0)
    /\ UNCHANGED <<results, pgresult, iresult, pending, inflight, cpc>>
    /\ UNCHANGED <<connVars, pipeVars, serverVars, tpcVars, pthrVars, sendVars, notifVars, xactVars>>

\* The loop of fetchmany running once more than asked
RECURSIVE fetchmanyLoopInclusive(_, _, _)
fetchmanyLoopInclusive(p, rv, size) ==
    IF Len(rv) <= size
    THEN LET row == _load_row(p)
         IN  IF row.err # NoError
             THEN [err |-> row.err, pos |-> p, rv |-> rv]
             ELSE IF row.row = NoRow
             THEN [err |-> NoError, pos |-> p, rv |-> rv]
             ELSE fetchmanyLoopInclusive(p + 1, Append(rv, row.row), size)
    ELSE [err |-> NoError, pos |-> p, rv |-> rv]

\* The loop of fetchmany: "while len(rv) < size"
RECURSIVE fetchmanyLoop(_, _, _)
fetchmanyLoop(p, rv, size) ==
    IF Len(rv) < size
    THEN LET row == _load_row(p)
         IN  IF row.err # NoError
             THEN [err |-> row.err, pos |-> p, rv |-> rv]
             ELSE IF row.row = NoRow
             THEN [err |-> NoError, pos |-> p, rv |-> rv]
             ELSE fetchmanyLoop(p + 1, Append(rv, row.row), size)
    ELSE [err |-> NoError, pos |-> p, rv |-> rv]

\* The loop of fetchall: "while 1"
RECURSIVE fetchallLoop(_, _)
fetchallLoop(p, rv) ==
    LET row == _load_row(p)
    IN  IF row.err # NoError
        THEN [err |-> row.err, pos |-> p, rv |-> rv]
        ELSE IF row.row = NoRow
        THEN [err |-> NoError, pos |-> p, rv |-> rv]
        ELSE fetchallLoop(p + 1, Append(rv, row.row))

\* "size=None"
NoSize == -1

\* Cursor.fetchmany(size)
Fetchmany(size) ==
    /\ cpc = "idle"
    /\ LET n == IF size = NoSize THEN arraysize ELSE size
           x == fetchmanyLoop(pos, <<>>, n)
       IN  /\ pos' = x.pos
           /\ last' = Last("fetchmany", x.err, NoResult, x.rv, "-", <<>>, size)
    /\ UNCHANGED <<results, pgresult, iresult, pending, inflight, cpc>>
    /\ UNCHANGED <<connVars, pipeVars, serverVars, tpcVars, pthrVars, sendVars, notifVars, xactVars>>

\* Cursor.fetchall()
Fetchall ==
    /\ cpc = "idle"
    /\ LET x == fetchallLoop(pos, <<>>)
       IN  /\ pos' = x.pos
           /\ last' = Last("fetchall", x.err, NoResult, x.rv, "-", <<>>, 0)
    /\ UNCHANGED <<results, pgresult, iresult, pending, inflight, cpc>>
    /\ UNCHANGED <<connVars, pipeVars, serverVars, tpcVars, pthrVars, sendVars, notifVars, xactVars>>

\* The operations a closed cursor rejects
ClosedOps == {"execute", "fetchone", "fetchmany", "fetchall"}

\* Cursor.close(): the cursor is closed (cpc = "closed") and its result
\* buffers are dropped; on a closed cursor it does nothing.
CursorClose ==
    /\ cpc \in {"idle", "closed"}
    /\ cpc' = "closed"
    /\ IF cpc = "closed"
       THEN UNCHANGED <<results, pgresult, pos, iresult>>
       ELSE /\ results' = <<>>
            /\ pgresult' = NoResult
            /\ pos' = 0
            /\ iresult' = 0
    /\ last' = Last("close", NoError, NoResult, <<>>, "-", <<>>, 0)
    /\ UNCHANGED <<pending, inflight>>
    /\ UNCHANGED <<connVars, pipeVars, serverVars, tpcVars, pthrVars, sendVars, notifVars, xactVars>>

\* A closed cursor that lets the operation through without an error
CursorRefuseSilently(o) ==
    /\ cpc = "closed"
    /\ last' = Last(o, NoError, NoResult, <<>>, "-", <<>>, 0)
    /\ UNCHANGED <<results, pgresult, pos, iresult, pending, inflight, cpc>>
    /\ UNCHANGED <<connVars, pipeVars, serverVars, tpcVars, pthrVars, sendVars, notifVars, xactVars>>

\* The operation o on a closed cursor: an interface error, before anything
\* is reset or sent.
CursorRefuse(o) ==
    /\ cpc = "closed"
    /\ last' = Last(o, "InterfaceError", NoResult, <<>>, "-", <<>>, 0)
    /\ UNCHANGED <<results, pgresult, pos, iresult, pending, inflight, cpc>>
    /\ UNCHANGED <<connVars, pipeVars, serverVars, tpcVars, pthrVars, sendVars, notifVars, xactVars>>

NextCursor ==
    \/ \E s \in ConnStatuses : Execute(s)
    \/ \E n \in 0..MaxParamSets, s \in ConnStatuses : ExecuteMany(n, s)
    \/ \E r \in PGresult : Receive(r)
    \/ \E w \in WaitRuns, s \in ConnStatuses : WaitEnds(w, s)
    \/ Nextset
    \/ Fetchone
    \/ \E size \in {NoSize} \cup 0..MaxSize : Fetchmany(size)
    \/ Fetchall
    \/ Iter
    \/ CursorClose
    \/ \E o \in ClosedOps : CursorRefuse(o)

\* =====================================================================
\*  Pipeline mode: nesting of Connection.pipeline() and the result queue
\* =====================================================================

NoPipe == 0
PipeIds == 1..MaxPipes

PLast(o, b, e) == [op |-> o, raised |-> b, err |-> e]

PipeInit ==
    /\ pipeline = NoPipe
    /\ level = [p \in PipeIds |-> 0]
    /\ stack = <<>>
    /\ queue = <<>>
    /\ delivered = [k \in 1..MaxQueue |-> 0]
    /\ submitted = 0
    /\ replies = 0
    /\ plast = PLast("init", FALSE, NoError)

\* Pipeline(self): a new object, distinct from the ones still referenced
NewPipe ==
    CHOOSE p \in PipeIds :
        /\ p # pipeline
        /\ \A i \in DOMAIN stack : stack[i] # p
        /\ \A q \in PipeIds :
              (q # pipeline /\ \A i \in DOMAIN stack : stack[i] # q) => p <= q

\* Pipeline.__enter__: entering raises the level of the Pipeline object
EnterLevel(p) == [level EXCEPT ![p] = @ + 1]

\* Pipeline.__exit__: leaving lowers the level of the Pipeline object
ExitLevel(p) == [level EXCEPT ![p] = @ - 1]

\* Pipeline.__exit__ of the outermost block: the results of every operation
\* still pending are fetched and the pipeline state is torn down.
Flush ==
    /\ queue' = <<>>
    /\ delivered' = [k \in 1..MaxQueue |-> 0]
    /\ submitted' = 0
    /\ replies' = 0

\* Connection.pipeline() up to the yield.  ok is the outcome of
\* _check_connection_ok(); "with pipeline:" enters the Pipeline.
PipelineEnter(ok) ==
    /\ Len(stack) < MaxLevel
    /\ IF ~ok
       THEN /\ plast' = PLast("enter", FALSE, "OperationalError")
            /\ UNCHANGED <<pipeline, level, stack, queue, delivered,
                           submitted, replies>>
       ELSE LET p == IF pipeline = NoPipe THEN NewPipe ELSE pipeline
            IN  /\ pipeline' = p
                /\ level' = EnterLevel(p)
                /\ stack' = Append(stack, p)
                /\ plast' = PLast("enter", FALSE, NoError)
                /\ UNCHANGED <<queue, delivered, submitted, replies>>
    /\ UNCHANGED <<connVars, cursorVars, serverVars, tpcVars, pthrVars, sendVars, notifVars, xactVars>>

\* The distribution of the next k replies to the newest k placeholders
DistributeNewest(k) ==
    [o \in 1..MaxQueue |->
        IF \E i \in 1..k : queue[Len(queue) + 1 - i] = o
        THEN LET i == CHOOSE j \in 1..k : queue[Len(queue) + 1 - j] = o
             IN  (submitted - Len(queue)) + i
        ELSE delivered[o]]

\* The distribution of the next k replies to the oldest k placeholders
Distribute(k) ==
    [o \in 1..MaxQueue |->
        IF \E i \in 1..k : queue[i] = o
        THEN LET i == CHOOSE j \in 1..k : queue[j] = o
             IN  (submitted - Len(queue)) + i
        ELSE delivered[o]]

\* The teardown of Connection.pipeline() that clears the connection's
\* pipeline at the exit of every block
TeardownAlways(p) == NoPipe

\* The "finally" of Connection.pipeline(): the new value of self._pipeline
Teardown(p) ==
    IF level'[p] = 0
    THEN NoPipe          \* assert pipeline is self._pipeline; then cleared
    ELSE pipeline

\* The exit of a Connection.pipeline() block; b says its body raised:
\* the end of "with pipeline:", then the "finally" clause.
PipelineExit(b) ==
    /\ stack # <<>>
    /\ LET p == stack[Len(stack)]
       IN  /\ level' = ExitLevel(p)
           /\ stack' = SubSeq(stack, 1, Len(stack) - 1)
           /\ pipeline' = Teardown(p)
           /\ IF level[p] = 1
              THEN Flush
              ELSE UNCHANGED <<queue, delivered, submitted, replies>>
           /\ plast' = PLast("exit", b, NoError)
    /\ UNCHANGED <<connVars, cursorVars, serverVars, tpcVars, pthrVars, sendVars, notifVars, xactVars>>

\* An operation is sent in pipeline mode: a placeholder is queued for it.
Submit ==
    /\ stack # <<>>
    /\ submitted < MaxQueue
    /\ submitted' = submitted + 1
    /\ queue' = Append(queue, submitted + 1)
    /\ plast' = PLast("submit", FALSE, NoError)
    /\ UNCHANGED <<pipeline, level, stack, delivered, replies>>
    /\ UNCHANGED <<connVars, cursorVars, serverVars, tpcVars, pthrVars, sendVars, notifVars, xactVars>>

\* The server answers the oldest operation it has not answered yet.
ServerReply ==
    /\ replies < submitted
    /\ replies' = replies + 1
    /\ plast' = PLast("reply", FALSE, NoError)
    /\ UNCHANGED <<pipeline, level, stack, queue, delivered, submitted>>
    /\ UNCHANGED <<connVars, cursorVars, serverVars, tpcVars, pthrVars, sendVars, notifVars, xactVars>>

\* A synchronization point that finds k replies to read
Sync(k) ==
    /\ stack # <<>>
    /\ k <= replies - (submitted - Len(queue))
    /\ delivered' = Distribute(k)
    /\ queue' = SubSeq(queue, k + 1, Len(queue))
    /\ plast' = PLast("sync", FALSE, NoError)
    /\ UNCHANGED <<pipeline, level, stack, submitted, replies>>
    /\ UNCHANGED <<connVars, cursorVars, serverVars, tpcVars, pthrVars, sendVars, notifVars, xactVars>>

NextPipeline ==
    \/ \E ok \in BOOLEAN : PipelineEnter(ok)
    \/ \E b \in BOOLEAN : PipelineExit(b)
    \/ Submit
    \/ ServerReply
    \/ \E k \in 0..MaxQueue : Sync(k)

\* =====================================================================
\*  Server Cursor: a named cursor held by the server
\* =====================================================================

\* The tri-state scrollable flag given to conn.cursor(name, scrollable=...)
Scrollables == {"True", "False", "None"}

\* The mode argument of scroll: the two modes and an unrecognized one
Modes == {"relative", "absolute", "wat"}

NoRowNumber == <<>>

\* What the caller saw of the last server-cursor call: the operation, the
\* state it was called in, the error raised, the command sent to the
\* server, the number of rows returned, the size or the amount asked for,
\* and the scroll mode.
SLast(o, f, e, c, n, v, m) ==
    [op |-> o, from |-> f, err |-> e, cmd |-> c, nrows |-> n, value |-> v,
     mode |-> m]

ServerInit ==
    /\ sstate = "none"
    /\ scrollable = "None"
    /\ rownumber = NoRowNumber
    /\ srows = 0
    /\ spos = 0
    /\ slast = SLast("init", "none", NoError, "none", 0, 0, "-")

\* conn.cursor(name, scrollable=sc): the cursor has a name and no server
\* side yet.
ServerCursor(sc) ==
    /\ sstate = "none"
    /\ sstate' = "UNBOUND"
    /\ scrollable' = sc
    /\ slast' = SLast("cursor", sstate, NoError, "none", 0, 0, "-")
    /\ UNCHANGED <<rownumber, srows, spos>>
    /\ UNCHANGED <<connVars, cursorVars, pipeVars, tpcVars, pthrVars, sendVars, notifVars, xactVars>>

\* The call o fails with error e before any reply of the server is used:
\* nothing of the cursor changes.
ServerFail(o, e, c, v, m) ==
    /\ slast' = SLast(o, sstate, e, c, 0, v, m)
    /\ UNCHANGED <<sstate, scrollable, rownumber, srows, spos>>

\* What stops an operation before it reaches the server-side cursor: the
\* cursor is closed, its connection is closed, or the server has no cursor
\* of that name.
Refusal ==
    IF sstate = "CLOSED" THEN "InterfaceError"
    ELSE IF closed THEN "OperationalError"
    ELSE IF sstate = "UNBOUND" THEN "ProgrammingError"
    ELSE NoError

\* ServerCursor.execute(query): DECLARE of a query of n rows; a cursor
\* executed before is declared anew.
ServerExecute(n) ==
    /\ sstate # "none"
    /\ IF sstate = "CLOSED"
       THEN ServerFail("execute", "InterfaceError", "none", n, "-")
       ELSE IF closed
       THEN ServerFail("execute", "OperationalError", "none", n, "-")
       ELSE /\ sstate' = "OPEN"
            /\ srows' = n
            /\ spos' = 0
            /\ rownumber' = <<0>>
            /\ slast' = SLast("execute", sstate, NoError, "DECLARE", 0, n, "-")
            /\ UNCHANGED scrollable
    /\ UNCHANGED <<connVars, cursorVars, pipeVars, tpcVars, pthrVars, sendVars, notifVars, xactVars>>

\* FETCH FORWARD that counts the rows asked for instead of the rows received
FetchForwardByRequest(o, size) ==
    IF Refusal # NoError
    THEN ServerFail(o, Refusal, "none", size, "-")
    ELSE LET remaining == srows - spos
             requested == CASE o = "fetchone" -> 1
                            [] o = "fetchmany" -> size
                            [] OTHER -> remaining
             k == IF requested < remaining THEN requested ELSE remaining
         IN  /\ spos' = spos + k
             /\ rownumber' = <<rownumber[1] + requested>>
             /\ slast' = SLast(o, sstate, NoError, "FETCH", k, size, "-")
             /\ UNCHANGED <<sstate, scrollable, srows>>

\* The FETCH FORWARD exchange of fetchone (1 row), fetchmany (size rows) and
\* fetchall (ALL): the server returns the rows left, up to the number asked
\* for, and the row number advances by the rows received.
FetchForward(o, size) ==
    IF Refusal # NoError
    THEN ServerFail(o, Refusal, "none", size, "-")
    ELSE LET remaining == srows - spos
             requested == CASE o = "fetchone" -> 1
                            [] o = "fetchmany" -> size
                            [] OTHER -> remaining
             k == IF requested < remaining THEN requested ELSE remaining
         IN  /\ spos' = spos + k
             /\ rownumber' = <<rownumber[1] + k>>
             /\ slast' = SLast(o, sstate, NoError, "FETCH", k, size, "-")
             /\ UNCHANGED <<sstate, scrollable, srows>>

\* ServerCursor.fetchone()
ServerFetchone ==
    /\ sstate # "none"
    /\ FetchForward("fetchone", 0)
    /\ UNCHANGED <<connVars, cursorVars, pipeVars, tpcVars, pthrVars, sendVars, notifVars, xactVars>>

\* ServerCursor.fetchmany(size)
ServerFetchmany(size) ==
    /\ sstate # "none"
    /\ FetchForward("fetchmany", size)
    /\ UNCHANGED <<connVars, cursorVars, pipeVars, tpcVars, pthrVars, sendVars, notifVars, xactVars>>

\* ServerCursor.fetchall()
ServerFetchall ==
    /\ sstate # "none"
    /\ FetchForward("fetchall", 0)
    /\ UNCHANGED <<connVars, cursorVars, pipeVars, tpcVars, pthrVars, sendVars, notifVars, xactVars>>

\* The server-side position after a move to p
Clip(p) == IF p < 0 THEN 0 ELSE IF p > srows THEN srows ELSE p

\* A server that lets every cursor move backwards
RejectedNever(value, mode, srv) == FALSE

\* The server rejects the MOVE: a backward or absolute move of a cursor
\* declared NO SCROLL, or of a cursor declared without the qualifier whose
\* query the server cannot scan backwards (srv).
Rejected(value, mode, srv) ==
    /\ mode = "absolute" \/ value < 0
    /\ \/ scrollable = "False"
       \/ scrollable = "None" /\ ~srv

\* ServerCursor.scroll(value, mode): a MOVE command; the row number follows
\* the move asked for once the server accepted it.
ServerScroll(value, mode, srv) ==
    /\ sstate # "none"
    /\ IF mode \notin {"relative", "absolute"}
       THEN ServerFail("scroll", "ValueError", "none", value, mode)
       ELSE IF Refusal # NoError
       THEN ServerFail("scroll", Refusal, "none", value, mode)
       ELSE IF Rejected(value, mode, srv)
       THEN ServerFail("scroll", "OperationalError", "MOVE", value, mode)
       ELSE LET target == IF mode = "relative"
                          THEN rownumber[1] + value ELSE value
            IN  /\ target \in -MaxRowNumber..MaxRowNumber
                /\ rownumber' = <<target>>
                /\ spos' = Clip(IF mode = "relative" THEN spos + value ELSE value)
                /\ slast' = SLast("scroll", sstate, NoError, "MOVE", 0, value, mode)
                /\ UNCHANGED <<sstate, scrollable, srows>>
    /\ UNCHANGED <<connVars, cursorVars, pipeVars, tpcVars, pthrVars, sendVars, notifVars, xactVars>>

\* ServerCursor.close() that fails when it cannot reach the server
ServerCloseNeedsConnection ==
    /\ sstate # "none"
    /\ IF closed
       THEN ServerFail("close", "OperationalError", "none", 0, "-")
       ELSE /\ sstate' = "CLOSED"
            /\ rownumber' = NoRowNumber
            /\ srows' = 0
            /\ spos' = 0
            /\ slast' = SLast("close", sstate, NoError, "CLOSE", 0, 0, "-")
            /\ UNCHANGED scrollable
    /\ UNCHANGED <<connVars, cursorVars, pipeVars, tpcVars, pthrVars, sendVars, notifVars, xactVars>>

\* ServerCursor.close(): nothing on a closed cursor; else CLOSE is sent when
\* the connection is open and a server-side cursor exists, and the cursor
\* is closed in every case.
ServerClose ==
    /\ sstate # "none"
    /\ sstate' = "CLOSED"
    /\ IF sstate = "CLOSED"
       THEN /\ slast' = SLast("close", sstate, NoError, "none", 0, 0, "-")
            /\ UNCHANGED <<rownumber, srows, spos>>
       ELSE /\ slast' = SLast("close", sstate, NoError,
                              IF closed \/ sstate = "UNBOUND"
                              THEN "none" ELSE "CLOSE",
                              0, 0, "-")
            /\ rownumber' = NoRowNumber
            /\ srows' = 0
            /\ spos' = 0
    /\ UNCHANGED scrollable
    /\ UNCHANGED <<connVars, cursorVars, pipeVars, tpcVars, pthrVars, sendVars, notifVars, xactVars>>

NextServerCursor ==
    \/ \E sc \in Scrollables : ServerCursor(sc)
    \/ \E n \in 0..MaxRows : ServerExecute(n)
    \/ ServerFetchone
    \/ \E size \in 1..MaxSize : ServerFetchmany(size)
    \/ ServerFetchall
    \/ \E value \in -MaxScroll..MaxScroll, mode \in Modes, srv \in BOOLEAN :
           ServerScroll(value, mode, srv)
    \/ ServerClose
    \/ Close(1)

\* =====================================================================
\*  tpc_recover and the transaction status, one caller
\* =====================================================================

\* pq.TransactionStatus
IDLE == "IDLE"
INTRANS == "INTRANS"
INERROR == "INERROR"

\* Who began the transaction that is open once a statement of who has
\* moved the status from st to st2: nobody when none is open, who when the
\* statement opened it, and else whoever had.
NoOpener == "none"
Opener(st, st2, who) ==
    IF st2 = IDLE THEN NoOpener
    ELSE IF st = IDLE THEN who
    ELSE txby

RLast(o, f, a, l, n, e) ==
    [op |-> o, found |-> f, after |-> a, left |-> l, rollbacks |-> n,
     err |-> e]

TpcInit ==
    /\ tstatus = IDLE
    /\ autocommit = FALSE
    /\ rpc = "idle"
    /\ rstatus = IDLE
    /\ rafter = IDLE
    /\ rollbacks = 0
    /\ rlast = RLast("init", IDLE, IDLE, IDLE, 0, NoError)
    /\ txby = NoOpener

\* The transaction status after a statement was run in status st: outside
\* autocommit the statement opens a transaction, an error inside a
\* transaction leaves it failed, and nothing succeeds in a failed one.
AfterQuery(st, ok) ==
    IF st = IDLE /\ autocommit THEN IDLE
    ELSE IF ok /\ st # INERROR THEN INTRANS
    ELSE INERROR

\* What a statement run in status st can end with
QueryEnds(st) ==
    {w \in WaitRuns : st = INERROR => wait(w[1], w[2]) # "ok"}

\* Between two calls of tpc_recover the caller runs a statement
\* (Connection.execute), ending as the wait run w says.
TpcStatement(w) ==
    /\ rpc = "idle"
    /\ w \in QueryEnds(tstatus)
    /\ tstatus' = AfterQuery(tstatus, wait(w[1], w[2]) = "ok")
    /\ rlast' = RLast("execute", tstatus, tstatus', tstatus', 0,
                      Raised(wait(w[1], w[2])))
    /\ UNCHANGED <<autocommit, rpc, rstatus, rafter, rollbacks>>
    /\ txby' = Opener(tstatus, tstatus', "caller")
    /\ UNCHANGED <<connVars, cursorVars, pipeVars, serverVars, pthrVars, sendVars, notifVars, xactVars>>

\* ... or ends the transaction with Connection.commit() or rollback(), ...
TpcEnd(o) ==
    /\ rpc = "idle"
    /\ tstatus' = IDLE
    /\ rlast' = RLast(o, tstatus, IDLE, IDLE, 0, NoError)
    /\ UNCHANGED <<autocommit, rpc, rstatus, rafter, rollbacks>>
    /\ txby' = NoOpener
    /\ UNCHANGED <<connVars, cursorVars, pipeVars, serverVars, pthrVars, sendVars, notifVars, xactVars>>

\* ... or changes Connection.autocommit outside a transaction.
TpcSetAutocommit(value) ==
    /\ rpc = "idle"
    /\ tstatus = IDLE
    /\ autocommit' = value
    /\ rlast' = RLast("set_autocommit", tstatus, tstatus, tstatus, 0, NoError)
    /\ UNCHANGED <<tstatus, rpc, rstatus, rafter, rollbacks>>
    /\ UNCHANGED txby
    /\ UNCHANGED <<connVars, cursorVars, pipeVars, serverVars, pthrVars, sendVars, notifVars, xactVars>>

\* tpc_recover() up to the catalog query: self._check_tpc() (supported
\* says whether it passes) and status = self.info.transaction_status.
RecoverCall(supported) ==
    /\ rpc = "idle"
    /\ IF supported
       THEN /\ rpc' = "execute"
            /\ rstatus' = tstatus
            /\ rollbacks' = 0
            /\ rafter' = tstatus
            /\ UNCHANGED rlast
       ELSE /\ rlast' = RLast("tpc_recover", tstatus, tstatus, tstatus, 0,
                              "NotSupportedError")
            /\ UNCHANGED <<rpc, rstatus, rafter, rollbacks>>
    /\ UNCHANGED <<tstatus, autocommit>>
    /\ UNCHANGED txby
    /\ UNCHANGED <<connVars, cursorVars, pipeVars, serverVars, pthrVars, sendVars, notifVars, xactVars>>

\* cur.execute(Xid._get_recover_query()) and cur.fetchall() inside
\* "with self.cursor(...) as cur:"; an error leaves tpc_recover there.
RecoverExecute(w) ==
    /\ rpc = "execute"
    /\ w \in QueryEnds(tstatus)
    /\ tstatus' = AfterQuery(tstatus, wait(w[1], w[2]) = "ok")
    /\ rafter' = tstatus'
    /\ IF wait(w[1], w[2]) = "ok"
       THEN /\ rpc' = "check"
            /\ UNCHANGED rlast
       ELSE /\ rpc' = "idle"
            /\ rlast' = RLast("tpc_recover", rstatus, tstatus', tstatus',
                              rollbacks, wait(w[1], w[2]))
    /\ UNCHANGED <<autocommit, rstatus, rollbacks>>
    /\ txby' = Opener(tstatus, tstatus', "tpc_recover")
    /\ UNCHANGED <<connVars, cursorVars, pipeVars, serverVars, pthrVars, sendVars, notifVars, xactVars>>

\* tpc_recover rolling back whatever transaction it finds open
RecoverCheckAnyStatus ==
    /\ rpc = "check"
    /\ IF tstatus = INTRANS
       THEN /\ rpc' = "rollback"
            /\ UNCHANGED rlast
       ELSE /\ rpc' = "idle"
            /\ rlast' = RLast("tpc_recover", rstatus, rafter, tstatus,
                              rollbacks, NoError)
    /\ UNCHANGED <<tstatus, autocommit, rstatus, rafter, rollbacks>>
    /\ UNCHANGED txby
    /\ UNCHANGED <<connVars, cursorVars, pipeVars, serverVars, pthrVars, sendVars, notifVars, xactVars>>

\* if status == IDLE and self.info.transaction_status == INTRANS:
\* self.rollback() is called, else tpc_recover returns res.
RecoverCheck ==
    /\ rpc = "check"
    /\ IF rstatus = IDLE /\ tstatus = INTRANS
       THEN /\ rpc' = "rollback"
            /\ UNCHANGED rlast
       ELSE /\ rpc' = "idle"
            /\ rlast' = RLast("tpc_recover", rstatus, rafter, tstatus,
                              rollbacks, NoError)
    /\ UNCHANGED <<tstatus, autocommit, rstatus, rafter, rollbacks>>
    /\ UNCHANGED txby
    /\ UNCHANGED <<connVars, cursorVars, pipeVars, serverVars, pthrVars, sendVars, notifVars, xactVars>>

\* self.rollback() of tpc_recover, ending as the wait run w says, and the
\* return of res after it.
RecoverRollback(w) ==
    /\ rpc = "rollback"
    /\ rpc' = "idle"
    /\ rollbacks' = rollbacks + 1
    /\ tstatus' = IF wait(w[1], w[2]) = "ok" THEN IDLE ELSE tstatus
    /\ rlast' = RLast("tpc_recover", rstatus, rafter, tstatus', rollbacks',
                      Raised(wait(w[1], w[2])))
    /\ UNCHANGED <<autocommit, rstatus, rafter>>
    /\ txby' = Opener(tstatus, tstatus', "tpc_recover")
    /\ UNCHANGED <<connVars, cursorVars, pipeVars, serverVars, pthrVars, sendVars, notifVars, xactVars>>

\* A second caller runs a statement on the same connection: tpc_recover
\* holds the lock only inside cur.execute() and inside self.rollback().
OtherStatement(w) ==
    /\ w \in QueryEnds(tstatus)
    /\ tstatus' = AfterQuery(tstatus, wait(w[1], w[2]) = "ok")
    /\ txby' = Opener(tstatus, tstatus', "other")
    /\ UNCHANGED <<autocommit, rpc, rstatus, rafter, rollbacks, rlast>>
    /\ UNCHANGED <<connVars, cursorVars, pipeVars, serverVars, pthrVars, sendVars, notifVars, xactVars>>

\* ... or ends its transaction with commit() or rollback().
OtherEnd(o) ==
    /\ tstatus # IDLE
    /\ tstatus' = IDLE
    /\ txby' = NoOpener
    /\ UNCHANGED <<autocommit, rpc, rstatus, rafter, rollbacks, rlast>>
    /\ UNCHANGED <<connVars, cursorVars, pipeVars, serverVars, pthrVars, sendVars, notifVars, xactVars>>

NextTpc ==
    \/ \E w \in WaitRuns : TpcStatement(w)
    \/ \E o \in {"commit", "rollback"} : TpcEnd(o)
    \/ \E value \in BOOLEAN : TpcSetAutocommit(value)
    \/ \E supported \in BOOLEAN : RecoverCall(supported)
    \/ \E w \in WaitRuns : RecoverExecute(w)
    \/ RecoverCheck
    \/ \E w \in WaitRuns : RecoverRollback(w)

\* tpc_recover and the statements of its caller, with a second caller
NextTpcThreads ==
    \/ \E w \in WaitRuns : TpcStatement(w)
    \/ \E o \in {"commit", "rollback"} : TpcEnd(o)
    \/ \E value \in BOOLEAN : TpcSetAutocommit(value)
    \/ \E supported \in BOOLEAN : RecoverCall(supported)
    \/ \E w \in WaitRuns : RecoverExecute(w)
    \/ RecoverCheck
    \/ \E w \in WaitRuns : RecoverRollback(w)
    \/ \E w \in WaitRuns : OtherStatement(w)
    \/ \E o \in {"commit", "rollback"} : OtherEnd(o)

\* =====================================================================
\*  Connection.pipeline() entered and left by concurrent callers
\* =====================================================================

PThrInit ==
    /\ ppc = [t \in Threads |-> "idle"]
    /\ pstack = [t \in Threads |-> <<>>]
    /\ perr = [t \in Threads |-> NoError]

\* The Pipeline objects the connection or some caller still refers to
Held == {pipeline} \cup UNION {{pstack[t][i] : i \in DOMAIN pstack[t]} : t \in Threads}

pipeRest == <<stack, queue, delivered, submitted, replies, plast>>
othersOfThreads ==
    <<connVars, cursorVars, pipeRest, serverVars, tpcVars, sendVars, notifVars, xactVars>>

\* Pipeline(self): a new object, distinct from the ones still referenced
NewPipeline == CHOOSE p \in PipeIds \ Held : \A q \in PipeIds \ Held : p <= q

\* The top of pstack[t]: the local variable "pipeline" of the innermost
\* Connection.pipeline() call of thread t
Local(t) == pstack[t][Len(pstack[t])]

Pop(t) == [pstack EXCEPT ![t] = SubSeq(@, 1, Len(@) - 1)]

\* Where thread t goes on once its innermost call is over
Back(t) == IF Len(pstack[t]) > 1 THEN "inside" ELSE "idle"

\* with self.lock: self._check_connection_ok(); pipeline = self._pipeline;
\* if pipeline is None: pipeline = self._pipeline = Pipeline(self)
PipelineLocked(t) ==
    /\ ppc[t] \in {"idle", "inside"}
    /\ Len(pstack[t]) < MaxLevel
    /\ lock = NoThread
    /\ pipeline = NoPipe => PipeIds \ Held # {}
    /\ LET p == IF pipeline = NoPipe THEN NewPipeline ELSE pipeline
       IN  /\ pipeline' = p
           /\ pstack' = [pstack EXCEPT ![t] = Append(@, p)]
    /\ ppc' = [ppc EXCEPT ![t] = "enter"]
    /\ perr' = [perr EXCEPT ![t] = NoError]
    /\ UNCHANGED level
    /\ UNCHANGED othersOfThreads

\* "with pipeline:" enters the Pipeline and the body of the block begins.
PipelineWith(t) ==
    /\ ppc[t] = "enter"
    /\ level' = EnterLevel(Local(t))
    /\ ppc' = [ppc EXCEPT ![t] = "inside"]
    /\ UNCHANGED <<pipeline, pstack, perr>>
    /\ UNCHANGED othersOfThreads

\* The body ends and "with pipeline:" leaves the Pipeline.
PipelineLeave(t) ==
    /\ ppc[t] = "inside"
    /\ level' = ExitLevel(Local(t))
    /\ ppc' = [ppc EXCEPT ![t] = "finally"]
    /\ UNCHANGED <<pipeline, pstack, perr>>
    /\ UNCHANGED othersOfThreads

\* finally: if pipeline.level == 0, read without the lock
PipelineFinally(t) ==
    /\ ppc[t] = "finally"
    /\ IF level[Local(t)] = 0
       THEN /\ ppc' = [ppc EXCEPT ![t] = "teardown"]
            /\ UNCHANGED pstack
       ELSE /\ ppc' = [ppc EXCEPT ![t] = Back(t)]
            /\ pstack' = Pop(t)
    /\ UNCHANGED <<pipeline, level, perr>>
    /\ UNCHANGED othersOfThreads

\* with self.lock: assert pipeline is self._pipeline; self._pipeline = None
PipelineTeardown(t) ==
    /\ ppc[t] = "teardown"
    /\ lock = NoThread
    /\ IF Local(t) = pipeline
       THEN /\ pipeline' = NoPipe
            /\ UNCHANGED perr
       ELSE /\ perr' = [perr EXCEPT ![t] = "AssertionError"]
            /\ UNCHANGED pipeline
    /\ ppc' = [ppc EXCEPT ![t] = Back(t)]
    /\ pstack' = Pop(t)
    /\ UNCHANGED level
    /\ UNCHANGED othersOfThreads

NextPipelineThreads ==
    \E t \in Threads :
        \/ PipelineLocked(t)
        \/ PipelineWith(t)
        \/ PipelineLeave(t)
        \/ PipelineFinally(t)
        \/ PipelineTeardown(t)

\* =====================================================================
\*  What _execute_send sends
\* =====================================================================

\* "vars=None"; otherwise vars is the number of parameters supplied
NoVars == -1
Vars == {NoVars} \cup 0..MaxParams

\* conn.cursor(): a text cursor, nothing sent
SendInit ==
    /\ binary = FALSE
    /\ outbox = <<>>

\* A call of pgconn as the transport sees it, with the vars argument of the
\* execute that made it and the binary attribute of the cursor.
SendCall(c, n, f, v, b) ==
    [call |-> c, nparams |-> n, result_format |-> f, vars |-> v, binary |-> b]

\* _execute_send choosing the send by the parameters alone
_execute_send_by_params_only(v, b) ==
    IF v # NoVars /\ v > 0
    THEN <<SendCall("send_query_params", v, b, v, b)>>
    ELSE <<SendCall("send_query", 0, FALSE, v, b)>>

\* The sends of BaseCursor._execute_send(query, vars) on a cursor whose
\* binary attribute is b, once the status check has passed:
\* "if vars:" send_query_params with the dumped parameters; else, for a
\* binary cursor, send_query_params(query, ()), and send_query otherwise.
_execute_send(v, b) ==
    IF v # NoVars /\ v > 0
    THEN <<SendCall("send_query_params", v, b, v, b)>>
    ELSE IF b
    THEN <<SendCall("send_query_params", 0, TRUE, v, b)>>
    ELSE <<SendCall("send_query", 0, FALSE, v, b)>>

\* conn.cursor(binary=b): BaseCursor.__init__ keeps the format
NewCursor(b) ==
    /\ binary' = b
    /\ UNCHANGED outbox
    /\ UNCHANGED <<connVars, cursorVars, pipeVars, serverVars, tpcVars, pthrVars, notifVars, xactVars>>

\* Cursor.execute(query, v) up to the send
ExecuteSend(v) ==
    /\ Len(outbox) < MaxSends
    /\ outbox' = outbox \o _execute_send(v, binary)
    /\ UNCHANGED binary
    /\ UNCHANGED <<connVars, cursorVars, pipeVars, serverVars, tpcVars, pthrVars, notifVars, xactVars>>

\* The transport takes the oldest send.
TransportTakes ==
    /\ outbox # <<>>
    /\ outbox' = Tail(outbox)
    /\ UNCHANGED binary
    /\ UNCHANGED <<connVars, cursorVars, pipeVars, serverVars, tpcVars, pthrVars, notifVars, xactVars>>

NextSend ==
    \/ \E b \in BOOLEAN : NewCursor(b)
    \/ \E v \in Vars : ExecuteSend(v)
    \/ TransportTakes

\* =====================================================================
\*  Connection.notifies() and another caller of the connection
\* =====================================================================

\* The thread that consumes the generator
Consumer == 1

\* pgn.relname of the messages
Channels == {"a", "b"}

RECURSIVE SeqsUpTo(_)
SeqsUpTo(n) ==
    IF n = 0 THEN {<<>>}
    ELSE SeqsUpTo(n - 1)
         \cup {Append(q, c) : q \in {x \in SeqsUpTo(n - 1) : Len(x) = n - 1},
                              c \in Channels}

\* What one wait on notifies(self.pgconn) can return
Batches == SeqsUpTo(MaxBatch)

\* Notify(pgn.relname.decode(enc), pgn.extra.decode(enc), pgn.be_pid)
Notify(pgn) == [channel |-> <<"str", pgn>>]

NotifInit ==
    /\ npc = "none"
    /\ nbatch = <<>>
    /\ nrecv = <<>>
    /\ nyield = <<>>
    /\ nerr = "none"

connRest == <<closed, pool, closedBy, pc, op, cur, exc, intr, second,
              cancels, left, body, wasOpen, sent, logged, res>>
othersOfNotifies ==
    <<connRest, cursorVars, pipeVars, serverVars, tpcVars, pthrVars, sendVars,
      xactVars>>

\* conn.notifies(): a new generator; nothing runs before the first pull.
NotifiesCall ==
    /\ npc \in {"none", "raised"}
    /\ npc' = "suspended"
    /\ nbatch' = <<>> /\ nrecv' = <<>> /\ nyield' = <<>> /\ nerr' = "none"
    /\ UNCHANGED lock
    /\ UNCHANGED othersOfNotifies

\* The consumer pulls: "for pgn in ns" yields the next message of the
\* batch, or the loop is over and "while True" goes on to "with self.lock:".
NotifiesNext ==
    /\ npc = "suspended"
    /\ IF nbatch # <<>>
       THEN /\ nyield' = Append(nyield, Notify(Head(nbatch)))
            /\ nbatch' = Tail(nbatch)
            /\ UNCHANGED npc
       ELSE /\ npc' = "acquire"
            /\ UNCHANGED <<nbatch, nyield>>
    /\ UNCHANGED <<nrecv, nerr, lock>>
    /\ UNCHANGED othersOfNotifies

\* with self.lock:
NotifiesAcquire ==
    /\ npc = "acquire"
    /\ lock = NoThread
    /\ lock' = Consumer
    /\ npc' = "wait"
    /\ UNCHANGED <<nbatch, nrecv, nyield, nerr>>
    /\ UNCHANGED othersOfNotifies

\* A generator that yields inside "with self.lock:"
NotifiesYieldLocked(b) ==
    IF b = <<>>
    THEN /\ npc' = "acquire"
         /\ lock' = NoThread
         /\ UNCHANGED <<nbatch, nyield>>
    ELSE /\ npc' = "suspended"
         /\ lock' = Consumer
         /\ nyield' = Append(nyield, Notify(Head(b)))
         /\ nbatch' = Tail(b)

\* The wait returned the batch b: the "with" block is left, and the first
\* message is yielded; with no message the loop goes back to the lock.
NotifiesYield(b) ==
    /\ lock' = NoThread
    /\ IF b = <<>>
       THEN /\ npc' = "acquire"
            /\ UNCHANGED <<nbatch, nyield>>
       ELSE /\ npc' = "suspended"
            /\ nyield' = Append(nyield, Notify(Head(b)))
            /\ nbatch' = Tail(b)

\* ns = self.wait(notifies(self.pgconn)) ends after the run w, with the
\* batch b when it returns; an error leaves the block and the generator.
NotifiesWait(w, b) ==
    /\ npc = "wait"
    /\ Len(nrecv) + Len(b) <= MaxMsgs
    /\ IF wait(w[1], w[2]) = "ok"
       THEN /\ nrecv' = nrecv \o b
            /\ NotifiesYield(b)
            /\ UNCHANGED nerr
       ELSE /\ b = <<>>
            /\ lock' = NoThread
            /\ npc' = "raised"
            /\ nerr' = wait(w[1], w[2])
            /\ UNCHANGED <<nbatch, nrecv, nyield>>
    /\ UNCHANGED othersOfNotifies

\* Another caller's locked operation begins ...
OtherLocks(t) ==
    /\ t # Consumer
    /\ lock = NoThread
    /\ lock' = t
    /\ UNCHANGED notifVars
    /\ UNCHANGED othersOfNotifies

\* ... and ends.
OtherUnlocks(t) ==
    /\ t # Consumer
    /\ lock = t
    /\ lock' = NoThread
    /\ UNCHANGED notifVars
    /\ UNCHANGED othersOfNotifies

NextNotifies ==
    \/ NotifiesCall
    \/ NotifiesNext
    \/ NotifiesAcquire
    \/ \E w \in WaitRuns, b \in Batches : NotifiesWait(w, b)
    \/ \E t \in Threads : OtherLocks(t)
    \/ \E t \in Threads : OtherUnlocks(t)

\* =====================================================================
\*  Connection.transaction(), inside and outside pipeline mode
\* =====================================================================

XactInit ==
    /\ xpc = "none"
    /\ xmgrs = <<>>
    /\ xfr = FALSE
    /\ xlog = <<>>
    /\ xbefore = [pipeline |-> NoPipe, level |-> 0, depth |-> 0]
    /\ xres = "none"

\* The level of the active pipeline pp under the levels lv, 0 without one
LevelOf(pp, lv) == IF pp = NoPipe THEN 0 ELSE lv[pp]

\* One thing the block did: a pipeline level entered or left, or a command
\* of the Transaction, with the active pipeline and its level just after.
Event(e, st) ==
    [ev |-> e, pipeline |-> st.pipeline,
     level |-> LevelOf(st.pipeline, st.level)]

\* A transaction() that enters no pipeline level around the body
transactionOuterOnly(active) ==
    IF active THEN <<"pipeline", "tx">> ELSE <<"tx">>

\* Connection.transaction: the context managers of its "with" statement,
\* in the order written; active is "if self._pipeline".
transaction(active) ==
    IF active THEN <<"pipeline", "tx", "pipeline">> ELSE <<"tx">>

\* __enter__ of the manager m: self.pipeline() finds self._pipeline set
\* and enters it once more; the Transaction issues its begin command.
EnterManager(st, m) ==
    IF m = "pipeline"
    THEN LET p == st.pipeline
             st2 == [st EXCEPT !.level = [@ EXCEPT ![p] = @ + 1],
                               !.stack = Append(@, p)]
         IN  [st2 EXCEPT !.log = Append(@, Event("enter_pipeline", st2))]
    ELSE [st EXCEPT !.log = Append(@, Event("begin", st))]

\* __exit__ of the manager m; raising says an exception is propagating and
\* fr is force_rollback.  The pipeline block lowers the level and clears
\* self._pipeline at level 0; the Transaction commits or rolls back.
ExitManager(st, m, raising, fr) ==
    IF m = "pipeline"
    THEN LET p == st.stack[Len(st.stack)]
             lv == [st.level EXCEPT ![p] = @ - 1]
             st2 == [st EXCEPT !.level = lv,
                               !.stack = SubSeq(@, 1, Len(@) - 1),
                               !.pipeline = IF lv[p] = 0 THEN NoPipe ELSE @]
         IN  [st2 EXCEPT !.log = Append(@, Event("exit_pipeline", st2))]
    ELSE [st EXCEPT !.log =
            Append(@, Event(IF raising \/ fr THEN "rollback" ELSE "commit",
                            st))]

\* The managers ms entered from left to right
RECURSIVE EnterAll(_, _)
EnterAll(st, ms) ==
    IF ms = <<>> THEN st
    ELSE EnterAll(EnterManager(st, Head(ms)), Tail(ms))

\* The managers ms left from right to left
RECURSIVE ExitAll(_, _, _, _)
ExitAll(st, ms, raising, fr) ==
    IF ms = <<>> THEN st
    ELSE ExitAll(ExitManager(st, ms[Len(ms)], raising, fr),
                 SubSeq(ms, 1, Len(ms) - 1), raising, fr)

\* The number of pipeline levels among the managers ms
Levels(ms) == Cardinality({i \in DOMAIN ms : ms[i] = "pipeline"})

\* The nesting depth of pipeline blocks at which the body of the block runs
BodyDepth == xbefore.depth + Levels(xmgrs)

othersOfTransaction ==
    <<connVars, cursorVars, serverVars, tpcVars, pthrVars, sendVars,
      notifVars>>

\* "with conn.transaction(force_rollback=fr):" up to the body.  fail names
\* the manager whose __enter__ raises (0: none does): the ones entered
\* before it are left again and the block is not run.
TransactionEnter(fr, fail) ==
    /\ xpc = "none"
    /\ LET ms == transaction(pipeline # NoPipe)
           entered == IF fail = 0 THEN ms ELSE SubSeq(ms, 1, fail - 1)
           st0 == [pipeline |-> pipeline, level |-> level, stack |-> stack,
                   log |-> <<>>]
           st1 == EnterAll(st0, entered)
           st2 == IF fail = 0 THEN st1 ELSE ExitAll(st1, entered, TRUE, fr)
       IN  /\ fail <= Len(ms)
           /\ Len(stack) + Levels(ms) <= MaxLevel
           /\ pipeline' = st2.pipeline
           /\ level' = st2.level
           /\ stack' = st2.stack
           /\ xlog' = st2.log
           /\ xmgrs' = IF fail = 0 THEN ms ELSE <<>>
           /\ xpc' = IF fail = 0 THEN "body" ELSE "none"
           /\ xres' = IF fail = 0 THEN "none" ELSE "refused"
    /\ xfr' = fr
    /\ xbefore' = [pipeline |-> pipeline, level |-> LevelOf(pipeline, level),
                   depth |-> Len(stack)]
    /\ UNCHANGED <<queue, delivered, submitted, replies, plast>>
    /\ UNCHANGED othersOfTransaction

\* The body of the block ends, raising when b, and the "with" statement
\* leaves its managers.
TransactionExit(b) ==
    /\ xpc = "body"
    /\ Len(stack) = BodyDepth
    /\ LET st0 == [pipeline |-> pipeline, level |-> level, stack |-> stack,
                   log |-> xlog]
           st2 == ExitAll(st0, xmgrs, b, xfr)
       IN  /\ pipeline' = st2.pipeline
           /\ level' = st2.level
           /\ stack' = st2.stack
           /\ xlog' = st2.log
    /\ xmgrs' = <<>>
    /\ xpc' = "none"
    /\ xres' = IF b THEN "raised" ELSE "none"
    /\ UNCHANGED <<xfr, xbefore>>
    /\ UNCHANGED <<queue, delivered, submitted, replies, plast>>
    /\ UNCHANGED othersOfTransaction

\* The caller's own pipeline blocks, around the transaction block and
\* inside its body, and the operations it sends.
NextTransaction ==
    \/ \E fr \in BOOLEAN, fail \in 0..3 : TransactionEnter(fr, fail)
    \/ \E b \in BOOLEAN : TransactionExit(b)
    \/ \E ok \in BOOLEAN : PipelineEnter(ok)
    \/ \E b \in BOOLEAN :
          (xpc = "body" => Len(stack) > BodyDepth) /\ PipelineExit(b)
    \/ Submit
    \/ ServerReply

\* =====================================================================
\*  Specifications
\* =====================================================================

Init ==
    /\ ConnInit /\ CursorInit /\ PipeInit /\ ServerInit /\ TpcInit
    /\ PThrInit /\ SendInit /\ NotifInit /\ XactInit

Spec == Init /\ [][Next]_vars

InitCursor == Init /\ ~pool

SpecCursor == InitCursor /\ [][NextCursor]_vars

InitPipeline == Init /\ ~pool

SpecPipeline == InitPipeline /\ [][NextPipeline]_vars

InitServerCursor == Init /\ ~pool

SpecServerCursor == InitServerCursor /\ [][NextServerCursor]_vars

InitTpc == Init /\ ~pool

SpecTpc == InitTpc /\ [][NextTpc]_vars

InitTpcThreads == Init /\ ~pool

SpecTpcThreads == InitTpcThreads /\ [][NextTpcThreads]_vars

InitPipelineThreads == Init /\ ~pool

SpecPipelineThreads == InitPipelineThreads /\ [][NextPipelineThreads]_vars

InitNotifies == Init /\ ~pool

SpecNotifies == InitNotifies /\ [][NextNotifies]_vars

InitTransaction == Init /\ ~pool

SpecTransaction == InitTransaction /\ [][NextTransaction]_vars

InitSend == Init /\ ~pool

SpecSend == InitSend /\ [][NextSend]_vars

\* =====================================================================
\*  Properties
\* =====================================================================

\* C1: in every interleaving of concurrent callers of one Connection, at
\* most one caller is inside Connection.wait at any instant, and that caller
\* holds the connection lock.
C1_OneCallerInWait ==
    \A t1, t2 \in Threads :
        InWait(t1) => /\ lock = t1
                      /\ InWait(t2) => t1 = t2

\* A caller is inside Connection.wait while another caller's rollback or
\* commit is blocked on the lock.
C1_Witness ==
    \E t1, t2 \in Threads :
        t1 # t2 /\ InWait(t1) /\ op[t1] # "exit" /\ pc[t2] = "acquire"

\* C2: the k-th reply is delivered to the k-th submitted operation, no
\* operation is answered before an older one, and an operation that has no
\* reply yet is still queued.
C2_PipelineFifo ==
    \A o \in 1..MaxQueue :
        /\ delivered[o] \in {0, o}
        /\ delivered[o] # 0 => \A o2 \in 1..o : delivered[o2] # 0
        /\ (o <= submitted /\ delivered[o] = 0)
              <=> (\E i \in DOMAIN queue : queue[i] = o)

\* A synchronization point delivered the first two replies while a later
\* operation, already answered by the server, is still pending.
C2_Witness ==
    /\ plast.op = "sync"
    /\ delivered[1] = 1
    /\ delivered[2] = 2
    /\ queue = <<3>>
    /\ replies = 3

\* C3: while the caller is inside n > 0 nested pipeline() blocks, all of
\* them hold the connection's one Pipeline object and its level is n; the
\* connection's pipeline is None exactly when the caller is inside no block,
\* whether the blocks returned or raised.
C3_PipelineReentrant ==
    /\ (stack = <<>>) <=> (pipeline = NoPipe)
    /\ stack # <<>> =>
          /\ \A i \in DOMAIN stack : stack[i] = pipeline
          /\ level[pipeline] = Len(stack)
    /\ \A p \in PipeIds : p # pipeline => level[p] = 0

\* An inner block was left by an exception and the outer block still has
\* the connection's pipeline.
C3_Witness ==
    /\ plast.op = "exit"
    /\ plast.raised
    /\ Len(stack) = 1
    /\ pipeline = stack[1]
    /\ level[pipeline] = 1

\* C4: a Connection.wait that was interrupted never ends with QueryCanceled
\* propagating; when the wait after the cancel request ended with it, the
\* caller gets the interrupt.
C4_CancelAbsorbed ==
    \A t \in Threads :
        (pc[t] = "waited" /\ intr[t]) =>
            /\ exc[t] # "QueryCanceled"
            /\ second[t] = "QueryCanceled" => exc[t] = _INTERRUPTED

\* An interrupted wait whose second wait ended with QueryCanceled has ended.
C4_Witness ==
    \E t \in Threads :
        /\ pc[t] = "waited"
        /\ intr[t]
        /\ cancels[t] = 1
        /\ second[t] = "QueryCanceled"
        /\ exc[t] = _INTERRUPTED

\* C5 as stated: whenever __exit__ ends after it was called with an
\* exception from the body, it attempted a rollback and it raises nothing.
C5_ExitAlwaysRollsBackAndSwallows ==
    \A t \in Threads :
        (op[t] = "exit" /\ pc[t] = "done" /\ body[t]) =>
            /\ sent[t] = "rollback"
            /\ res[t] = "none"

\* C5, amended: when __exit__ of a connection that is open is called with an
\* exception from the body, it attempts a rollback and never a commit; an
\* Exception raised by the rollback is logged and not raised by __exit__; an
\* interrupt (KeyboardInterrupt) ending the rollback propagates out of
\* __exit__ without a log; on a closed connection nothing is attempted.
C5_ExitRollback ==
    \A t \in Threads :
        (op[t] = "exit" /\ pc[t] \in {"exit_close", "done"} /\ body[t]) =>
            IF wasOpen[t]
            THEN /\ sent[t] = "rollback"
                 /\ IsException(exc[t]) => (logged[t] /\ res[t] = "none")
                 /\ exc[t] = _INTERRUPTED => (~logged[t] /\ res[t] = _INTERRUPTED)
                 /\ exc[t] = "none" => (~logged[t] /\ res[t] = "none")
            ELSE sent[t] = "none" /\ res[t] = "none" /\ ~logged[t]

\* The rollback of a scope exit failed with a database error that __exit__
\* logged and did not raise.
C5_Witness ==
    \E t \in Threads :
        /\ op[t] = "exit"
        /\ pc[t] = "done"
        /\ body[t]
        /\ wasOpen[t]
        /\ sent[t] = "rollback"
        /\ exc[t] = "DatabaseError"
        /\ logged[t]
        /\ res[t] = "none"

Returned ==
    /\ cpc = "idle"
    /\ last.op \in {"execute", "executemany"}
    /\ last.input # <<>>

COPY == {"COPY_IN", "COPY_OUT", "COPY_BOTH"}

\* C7: when all the results returned for an execute are acceptable, execute
\* raises nothing, the cursor buffers them in the order received, the first
\* one is current, and the result index and the row position are 0.
C7_AllAcceptableBuffered ==
    (Returned /\ badstats(last.input) = {}) =>
        /\ last.err = NoError
        /\ results = last.input
        /\ pgresult = last.input[1]
        /\ iresult = 0
        /\ pos = 0

\* An execute returned two different acceptable results.
C7_Witness ==
    /\ Returned
    /\ last.op = "execute"
    /\ Len(last.input) = 2
    /\ badstats(last.input) = {}
    /\ last.input[1] # last.input[2]
    /\ results = last.input

\* C8: when the results are not all acceptable and the final one is a fatal
\* error, execute raises a database error built from that final result,
\* whatever the earlier statuses, and the cursor buffers nothing.
C8_FatalErrorRaised ==
    (Returned /\ last.input[Len(last.input)].status = "FATAL_ERROR") =>
        /\ last.err = "DatabaseError"
        /\ last.from = last.input[Len(last.input)]
        /\ results = <<>>
        /\ pgresult = NoResult

\* A COPY result and another fatal error came before the final fatal error.
C8_Witness ==
    /\ Returned
    /\ Len(last.input) = 2
    /\ last.input[1].status \in COPY
    /\ last.input[2].status = "FATAL_ERROR"
    /\ last.err = "DatabaseError"
    /\ last.from = last.input[2]

\* C9: when the final result is not a fatal error, a COPY status among the
\* results makes execute raise a programming error, and unacceptable
\* statuses without a COPY status make it raise an internal error; nothing
\* is buffered.
C9_CopyOrUnexpected ==
    (Returned /\ badstats(last.input) # {}
              /\ last.input[Len(last.input)].status # "FATAL_ERROR") =>
        /\ last.err = IF badstats(last.input) \cap COPY # {}
                      THEN "ProgrammingError" ELSE "InternalError"
        /\ results = <<>>
        /\ pgresult = NoResult

\* A COPY result came after a fatal error: programming error.
C9_Witness ==
    /\ Returned
    /\ Len(last.input) = 2
    /\ last.input[1].status = "FATAL_ERROR"
    /\ last.input[2].status \in COPY
    /\ last.err = "ProgrammingError"

\* The result set the cursor is on: the one at the result index, the last
\* one once nextset went past it.
CurrentSet ==
    results[IF iresult < Len(results) THEN iresult + 1 ELSE Len(results)]

RowcountOfCurrent ==
    IF results = <<>>
    THEN rowcount = -1
    ELSE /\ CurrentSet.status = "TUPLES_OK" => rowcount = CurrentSet.ntuples
         /\ (CurrentSet.status # "TUPLES_OK" /\ CurrentSet.command_tuples = -1)
               => rowcount = -1

\* A fetch call: the step is the one of the fetch named in last'
FetchStep ==
    \/ last'.op = "fetchone" /\ Fetchone
    \/ last'.op = "fetchall" /\ Fetchall
    \/ last'.op = "fetchmany" /\ Fetchmany(last'.size)

\* C10: rowcount is -1 when the cursor has no current result or the current
\* result set has no rows and no affected-row count, it is the number of
\* rows of the current result set when that is row-producing (also after
\* nextset), and no fetch changes it.
C10_Rowcount ==
    /\ []RowcountOfCurrent
    /\ [][FetchStep => rowcount' = rowcount]_vars

\* After nextset moved to a second result set of another size and a row was
\* fetched, rowcount is the size of the second set.
C10_Witness ==
    /\ last.op = "fetchone"
    /\ last.ret # <<>>
    /\ iresult = 1
    /\ Len(results) = 2
    /\ results[1].status = "TUPLES_OK"
    /\ results[2].status = "TUPLES_OK"
    /\ results[1].ntuples # results[2].ntuples
    /\ rowcount = results[2].ntuples

\* C11: after an execute whose current result is command-complete and
\* reports an affected-row count n (an INSERT of n rows), rowcount is n.
C11_RowcountAffected ==
    (/\ Returned
     /\ last.op = "execute"
     /\ last.err = NoError
     /\ pgresult.status = "COMMAND_OK"
     /\ pgresult.command_tuples >= 0) =>
        rowcount = pgresult.command_tuples

\* C12: after an executemany over m parameter sets, rowcount is the total
\* number of rows affected by the m executions: m when each of them was a
\* one-row INSERT, not the count of the last one alone.
C12_RowcountExecutemany ==
    (/\ Returned
     /\ last.op = "executemany"
     /\ last.err = NoError
     /\ last.flag = "single") =>
        rowcount = last.size

\* C13: exhaustion of fetchone is idempotent.  On a row-producing result
\* with n rows the row position never exceeds n; a fetchone below n returns
\* the row at the position and advances by one, so the first n calls return
\* the rows in order; every fetchone at n returns the end-of-data sentinel
\* and leaves the position at n.
C13_FetchoneExhaustion ==
    /\ [](pgresult.status = "TUPLES_OK" => pos <= pgresult.ntuples)
    /\ [][(Fetchone /\ pgresult.status = "TUPLES_OK") =>
            /\ last'.err = NoError
            /\ IF pos < pgresult.ntuples
               THEN /\ last'.ret = <<pos>>
                    /\ pos' = pos + 1
               ELSE /\ last'.ret = <<>>
                    /\ pos' = pos
                    /\ pos' = pgresult.ntuples]_vars

\* A fetchone returned the end-of-data sentinel after all the rows of a
\* result of MaxRows rows had been returned.
C13_Witness ==
    /\ last.op = "fetchone"
    /\ last.err = NoError
    /\ last.ret = <<>>
    /\ pgresult.status = "TUPLES_OK"
    /\ pgresult.ntuples = MaxRows
    /\ pos = MaxRows

\* C14: the result index counts the nextset calls since the execute.  After
\* an execute that buffered k result sets, the calls 1..k-1 return true,
\* make the next result set in submission order current and reset the row
\* position to 0; every later call returns None and leaves the current
\* result set and the row position unchanged, so that the current result
\* set is always the one at the index, or the last one once the calls went
\* past it.  On a cursor with nothing buffered (never executed) nextset
\* returns None.
C14_Nextset ==
    /\ [](results # <<>> => pgresult = CurrentSet)
    /\ [][Nextset =>
            LET call == iresult + 1
            IN  /\ iresult' = call
                /\ IF call <= Len(results) - 1
                   THEN /\ last'.flag = "True"
                        /\ pgresult' = results[call + 1]
                        /\ pos' = 0
                   ELSE /\ last'.flag = "None"
                        /\ pgresult' = pgresult
                        /\ pos' = pos]_vars

\* Two different result sets were buffered, rows of the second one were
\* fetched, and a second nextset call past the last set returned None.
C14_Witness ==
    /\ last.op = "nextset"
    /\ last.flag = "None"
    /\ Len(results) = 2
    /\ results[1] # results[2]
    /\ iresult = 3
    /\ pgresult = results[2]
    /\ pos > 0

NoRows == pgresult = NoResult \/ pgresult.status # "TUPLES_OK"

\* C16 as stated: every fetchone, fetchmany and fetchall fails with a
\* programming error when no result is loaded or the current result is not
\* row-producing, and leaves the row position, the current result and the
\* result index unchanged.
C16_FetchWithoutRows ==
    [][(FetchStep /\ NoRows) =>
          /\ last'.err = "ProgrammingError"
          /\ UNCHANGED <<pos, pgresult, iresult>>]_vars

\* C16, amended: with no result loaded or a current result that is not
\* row-producing, fetchone, fetchall and every fetchmany asked for at least
\* one row fail with a programming error; fetchmany(0) never looks at the
\* result and returns an empty list without an error.  In both cases the
\* row position, the current result and the result index are unchanged.
C16_FetchWithoutRowsSized ==
    [][(FetchStep /\ NoRows) =>
          /\ last'.err = IF last'.op = "fetchmany" /\ last'.size = 0
                         THEN NoError ELSE "ProgrammingError"
          /\ last'.ret = <<>>
          /\ UNCHANGED <<pos, pgresult, iresult>>]_vars

\* A fetchmany(2) failed on the command-complete second result set that
\* nextset made current.
C16_Witness ==
    /\ last.op = "fetchmany"
    /\ last.size = 2
    /\ last.err = "ProgrammingError"
    /\ pgresult.status = "COMMAND_OK"
    /\ iresult = 1
    /\ Len(results) = 2

\* A call that reads rows: a fetch or one step of the iteration
ReadStep == FetchStep \/ (last'.op = "iter" /\ Iter)

\* The number of rows the call that made last' asked for, with r rows left
Requested(l, r) ==
    CASE l.op \in {"fetchone", "iter"} -> 1
      [] l.op = "fetchmany" -> IF l.size = NoSize THEN arraysize ELSE l.size
      [] OTHER -> r

\* C17: on a row-producing current result with n rows, fetchone,
\* fetchmany(k), fetchall and the steps of an iteration, in any order,
\* return the rows in result order, none skipped and none twice: each call
\* returns the next min(requested, remaining) rows, starting at the row
\* position, and advances the position by the number of rows it returned
\* (fetchall returns all the remaining rows; after exhaustion the lists are
\* empty); between two reads the position moves only when another result
\* set becomes current, and then to 0.
C17_FetchInOrder ==
    /\ [][(ReadStep /\ ~NoRows) =>
            LET remaining == pgresult.ntuples - pos
                requested == Requested(last', remaining)
                k == IF requested < remaining THEN requested ELSE remaining
            IN  /\ last'.err = NoError
                /\ last'.ret = [i \in 1..k |-> pos + i - 1]
                /\ pos' = pos + k]_vars
    /\ [][(pos' # pos /\ ~ReadStep) =>
            /\ pos' = 0
            /\ last'.op \in {"execute", "executemany", "nextset", "close"}]_vars

\* After a fetchone on a result of two rows, fetchmany(3) returned the one
\* row left.
C17_Witness ==
    /\ last.op = "fetchmany"
    /\ last.size = 3
    /\ last.ret = <<1>>
    /\ pgresult.status = "TUPLES_OK"
    /\ pgresult.ntuples = 2
    /\ pos = 2

\* A scroll call: the step is the one of the scroll named in slast'
ScrollStep ==
    /\ slast'.op = "scroll"
    /\ \E srv \in BOOLEAN : ServerScroll(slast'.value, slast'.mode, srv)

\* A fetch call of the server cursor
ServerFetchStep ==
    \/ slast'.op = "fetchone" /\ ServerFetchone
    \/ slast'.op = "fetchmany" /\ ServerFetchmany(slast'.value)
    \/ slast'.op = "fetchall" /\ ServerFetchall

\* C18: on a Server Cursor declared non-scrollable, a scroll with an
\* unrecognized mode fails with a value error; once the cursor is declared
\* on the server (OPEN), every relative scroll by a negative amount and
\* every absolute scroll fails with an operational error, and a forward
\* relative scroll is accepted while the connection is open; the failed
\* scrolls leave the row number unchanged.
C18_NonScrollable ==
    [][(ScrollStep /\ scrollable = "False") =>
          LET mode == slast'.mode
              value == slast'.value
          IN  /\ mode \notin {"relative", "absolute"} =>
                    /\ slast'.err = "ValueError"
                    /\ rownumber' = rownumber
              /\ (sstate = "OPEN" /\ (mode = "absolute"
                                      \/ (mode = "relative" /\ value < 0))) =>
                    /\ slast'.err = "OperationalError"
                    /\ rownumber' = rownumber
              /\ (sstate = "OPEN" /\ ~closed /\ mode = "relative" /\ value >= 0) =>
                    /\ slast'.err = NoError
                    /\ rownumber' = <<rownumber[1] + value>>]_vars

\* After a forward scroll and a fetch on an open non-scrollable cursor, a
\* scroll(-1) was rejected by the server with an operational error.
C18_Witness ==
    /\ scrollable = "False"
    /\ sstate = "OPEN"
    /\ slast.op = "scroll"
    /\ slast.mode = "relative"
    /\ slast.value = -1
    /\ slast.cmd = "MOVE"
    /\ slast.err = "OperationalError"
    /\ rownumber = <<2>>
    /\ spos = 1

\* C19: CLOSED is terminal.  No step leaves CLOSED; close leads to CLOSED
\* from every state of the cursor (never executed, open, partly or fully
\* fetched, closed) and never raises, also when the connection was closed
\* first; every fetchone, fetchmany and fetchall in CLOSED fails with an
\* interface error.
C19_ClosedTerminal ==
    /\ [][sstate = "CLOSED" => sstate' = "CLOSED"]_vars
    /\ [][ServerClose => (sstate' = "CLOSED" /\ slast'.err = NoError)]_vars
    /\ [][(ServerFetchStep /\ sstate = "CLOSED") =>
             /\ slast'.err = "InterfaceError"
             /\ slast'.nrows = 0]_vars

\* A partly fetched cursor whose connection had been closed first was
\* closed without an error and without a CLOSE command.
C19_Witness ==
    /\ sstate = "CLOSED"
    /\ closed
    /\ slast.op = "close"
    /\ slast.from = "OPEN"
    /\ slast.err = NoError
    /\ slast.cmd = "none"

C21_TpcPrepareTranslates ==
    \A t \in Threads :
        (pc[t] = "done" /\ op[t] = "tpc_prepare") =>
            /\ res[t] = IF exc[t] = "ObjectNotInPrerequisiteState"
                        THEN "NotSupportedError" ELSE exc[t]
            /\ lock # t

\* One tpc_prepare raised the translated error and another one let a
\* database error through.
C21_Witness ==
    \E t, u \in Threads :
        /\ pc[t] = "done" /\ op[t] = "tpc_prepare"
        /\ exc[t] = "ObjectNotInPrerequisiteState"
        /\ res[t] = "NotSupportedError"
        /\ pc[u] = "done" /\ op[u] = "tpc_prepare"
        /\ res[u] = "DatabaseError"
        /\ lock = NoThread

\* C22: with a single caller, a tpc_recover that returns leaves the
\* transaction status as it found it: found IDLE it is IDLE again, after one
\* compensating rollback exactly when the catalog query had moved the
\* status to INTRANS; a call that found another status issues no rollback,
\* however it ends.
C22_TpcRecoverRestores ==
    /\ (rlast.op = "tpc_recover" /\ rlast.err = NoError) =>
          /\ rlast.left = rlast.found
          /\ rlast.rollbacks =
                IF rlast.found = IDLE /\ rlast.after = INTRANS THEN 1 ELSE 0
    /\ (rlast.op = "tpc_recover" /\ rlast.found # IDLE) => rlast.rollbacks = 0
    /\ (rpc # "idle" /\ rstatus # IDLE) => rollbacks = 0

\* A call that found the status IDLE returned after the query had opened a
\* transaction and the rollback had closed it.
C22_Witness ==
    /\ rlast.op = "tpc_recover"
    /\ rlast.err = NoError
    /\ rlast.found = IDLE
    /\ rlast.after = INTRANS
    /\ rlast.rollbacks = 1
    /\ tstatus = IDLE
    /\ ~autocommit

\* C23: in every interleaving of threads entering and leaving
\* Connection.pipeline() on one connection, a thread inside a pipeline block
\* finds the connection's active pipeline to be the Pipeline object it
\* entered, and the assertion of the teardown never fails.
C23_PipelineOfBlock ==
    \A t \in Threads :
        /\ ppc[t] = "inside" => pipeline = Local(t)
        /\ perr[t] # "AssertionError"

\* The positions of a caller between "with self.lock:" and the end of it
LockedPcs == {"wait1", "cancel", "wait2", "waited"}

\* C24: every locked operation releases the connection lock on every exit
\* path, whether it returned or raised (a connection-status error, an error
\* or an interrupt out of the wait, an error of the classification): a
\* caller that is not inside a "with self.lock:" block does not hold the
\* lock, so the lock is free for the operation that follows.
C24_LockReleased ==
    /\ lock # NoThread => pc[lock] \in LockedPcs
    /\ (\A t \in Threads : pc[t] \notin LockedPcs) => lock = NoThread

\* tpc_prepare was interrupted in its wait and raised KeyboardInterrupt;
\* a Cursor.execute that followed has the lock and waits.
C24_Witness ==
    \E t, u \in Threads :
        /\ pc[t] = "done" /\ op[t] = "tpc_prepare"
        /\ res[t] = "KeyboardInterrupt"
        /\ lock = u /\ pc[u] = "wait1" /\ op[u] = "execute"

\* C25: a wait that is interrupted sends exactly one cancel request, and
\* sends it before the same generator is waited on again; a wait that is not
\* interrupted sends none; an error of the second wait other than
\* "operation cancelled" is what the wait raises.
C25_OneCancel ==
    \A t \in Threads :
        /\ pc[t] \in {"wait1", "cancel"} => cancels[t] = 0
        /\ pc[t] = "wait2" => intr[t] /\ cancels[t] = 1
        /\ pc[t] = "waited" => cancels[t] = IF intr[t] THEN 1 ELSE 0
        /\ (pc[t] = "waited" /\ intr[t]
                /\ second[t] \notin {"ok", "QueryCanceled"}) =>
               exc[t] = second[t]

\* One caller's wait was interrupted, one cancel request went out and the
\* second wait raised a database error, which is propagating; another
\* caller's wait ended without an interrupt and without a cancel request.
C25_Witness ==
    \E t, u \in Threads :
        /\ pc[t] = "waited" /\ intr[t] /\ cancels[t] = 1
        /\ second[t] = "DatabaseError" /\ exc[t] = "DatabaseError"
        /\ pc[u] = "done" /\ op[u] = "tpc_prepare" /\ cancels[u] = 0
        /\ exc[u] = "none"

\* C26: after an interrupt Connection.wait never returns a value: once the
\* cancel request is sent and the second wait ended normally or with
\* "operation cancelled", the interrupt is raised again; so the interrupted
\* Cursor.execute or executemany ends with an exception, buffers no result
\* and leaves its "with self.conn.lock:" block.
C26_InterruptRaises ==
    [][\A w \in WaitRuns :
          (cpc = "wait" /\ w[1] = _INTERRUPTED /\ WaitEnds(w, "OK")) =>
              /\ wait(w[1], w[2]) # "ok"
              /\ last'.err = wait(w[1], w[2])
              /\ w[2] \in {"ok", "QueryCanceled"} => last'.err = _INTERRUPTED
              /\ results' = <<>> /\ pgresult' = NoResult
              /\ cpc' = "idle" /\ pending' = 0]_vars

\* An execute whose wait was interrupted has raised the interrupt and the
\* cursor holds no result.
C26_Witness ==
    /\ last.op = "execute" /\ last.err = _INTERRUPTED
    /\ cpc = "idle" /\ results = <<>> /\ pgresult = NoResult

\* C27: in every state a Cursor reaches by execute, executemany, nextset and
\* the fetches, repeated nextset past the last result set included, the
\* index of the current result set is less than the number of buffered
\* results.
C27_IndexInRange == iresult < Len(results)

\* C27 for the cursors that have buffered results, where only nextset can
\* break it.
C27_IndexInRangeOfResults == results # <<>> => iresult < Len(results)

\* The operations that hand rows of the current result to the caller
FetchOps == {"fetchone", "fetchmany", "fetchall", "iter"}

\* C28: the row position of a Cursor with a current result is between 0 and
\* the row count of that result; it grows only in a fetch and then by the
\* number of rows the fetch returned; execute, executemany and a successful
\* nextset set it back to 0.
C28_RowPosition ==
    /\ [](pos >= 0 /\ (pgresult # NoResult => pos <= pgresult.ntuples))
    /\ [][/\ pos' > pos =>
                /\ last'.op \in FetchOps
                /\ pos' = pos + Len(last'.ret)
          /\ pos' < pos => pos' = 0
          /\ (last'.op \in {"execute", "executemany"} /\ cpc' = "wait") =>
                pos' = 0
          /\ (last'.op = "nextset" /\ last'.flag = "True"
                /\ iresult' # iresult) => pos' = 0]_vars

\* After a successful nextset a fetchall returned the two rows of the second
\* result set: the position went back to 0 and is now at the row count.
C28_Witness ==
    /\ iresult = 1 /\ Len(results) = 2
    /\ results[1].ntuples > 0
    /\ last.op = "fetchall" /\ Len(last.ret) = 2
    /\ pos = 2 /\ pgresult.ntuples = 2

\* The message of the InterfaceError of _execute_send for a status not OK
Message(s) ==
    IF s = "BAD" THEN "cannot execute operations: the connection is closed"
    ELSE "cannot execute operations: the connection is in status " \o s

\* Nothing was sent and the cursor is as it was.
Untouched ==
    /\ cpc' = "idle" /\ pending' = 0
    /\ UNCHANGED <<results, pgresult, iresult, pos>>

\* C29 as stated: Cursor.execute and executemany on a connection whose
\* status is not OK raise an interface error, with one message for BAD and
\* one naming the status otherwise, before anything is sent, and leave the
\* buffered results, the current result, the result index and the row
\* position as they were.
C29_StatusCheck ==
    [][\A s \in ConnStatuses \ {"OK"} :
          (/\ cpc = "idle"
           /\ last'.op \in {"execute", "executemany"}
           /\ \/ Execute(s)
              \/ \E n \in 0..MaxParamSets : ExecuteMany(n, s)) =>
              /\ last'.err = "InterfaceError"
              /\ last'.flag = Message(s)
              /\ Untouched]_vars

\* C29, amended: it is each _execute_send that checks the status, so the
\* error is raised by execute and by executemany for each parameter set:
\* before the first one the cursor stays as it was before the call, before
\* a later one as the results of the previous parameter set left it; an
\* executemany over no parameter sets returns without error whatever the
\* status.
C29_StatusCheckPerSend ==
    [][\A s \in ConnStatuses \ {"OK"} :
          /\ (cpc = "idle" /\ last'.op = "execute" /\ Execute(s)) =>
                 /\ last'.err = "InterfaceError"
                 /\ last'.flag = Message(s)
                 /\ Untouched
          /\ (cpc = "idle" /\ last'.op = "executemany"
                /\ \E n \in {1, MaxParamSets} : ExecuteMany(n, s)) =>
                 /\ last'.err = "InterfaceError"
                 /\ last'.flag = Message(s)
                 /\ Untouched
          /\ (cpc = "idle" /\ last'.op = "executemany"
                /\ ExecuteMany(0, s)) =>
                 /\ last'.err = NoError
                 /\ Untouched
          /\ (cpc = "wait" /\ pending > 1 /\ cpc' = "idle"
                /\ WaitEnds(<<"ok", "none">>, s)) =>
                 /\ last'.op = "executemany"
                 /\ last'.err = "InterfaceError"
                 /\ last'.flag = Message(s)
                 /\ pending' = 0
                 /\ results' = Buffered(inflight).results
                 /\ pgresult' = Buffered(inflight).pgresult
                 /\ UNCHANGED <<iresult, pos>>]_vars

\* An executemany found the connection in status STARTED and raised; the
\* cursor still holds results and a row position beyond 0.
C29_Witness ==
    /\ last.op = "executemany" /\ last.err = "InterfaceError"
    /\ last.flag = Message("STARTED")
    /\ results # <<>> /\ pos > 0

\* Every execute adds one send to the ones not yet taken.
OneSendEach ==
    \A v \in Vars :
        ExecuteSend(v) =>
            /\ Len(outbox') = Len(outbox) + 1
            /\ outbox'[Len(outbox')].vars = v
            /\ outbox'[Len(outbox')].binary = binary

C31_ExecutemanyOneLock ==
    /\ [](\A t \in Threads :
            cur[t] = "executemany" =>
                /\ lock = t
                /\ pc[t] \in LockedPcs
                /\ \A u \in Threads \ {t} : pc[u] \notin LockedPcs
                /\ InWait(t) => left[t] >= 1)
    /\ [][\A t \in Threads :
            /\ (pc[t] = "waited" /\ pc'[t] = "wait1") =>
                  /\ cur[t] = "executemany" /\ cur'[t] = "executemany"
                  /\ exc[t] = "none"
                  /\ left[t] > 1 /\ left'[t] = left[t] - 1
                  /\ lock = t /\ lock' = t
            /\ (pc[t] = "waited" /\ exc[t] # "none") => pc'[t] # "wait1"
            /\ (cur[t] = "none" /\ cur'[t] = "executemany"
                  /\ left'[t] = 0) => pc'[t] = "waited"]_vars

\* An executemany over two parameter sets has sent the second one, still
\* under the lock it took, while another caller waits for the lock.
C31_Witness ==
    \E t, u \in Threads :
        /\ cur[t] = "executemany" /\ pc[t] = "wait1" /\ left[t] = 1
        /\ lock = t
        /\ pc[u] = "acquire"

\* C31, the cursor's side of the empty sequence: an executemany over no
\* parameter sets leaves the buffers as they were.
C31_EmptySequence ==
    [][(cpc = "idle" /\ last'.op = "executemany" /\ last'.err = NoError
          /\ \E s \in ConnStatuses : ExecuteMany(0, s)) =>
             /\ cpc' = "idle" /\ pending' = 0
             /\ UNCHANGED <<results, pgresult, iresult, pos>>]_vars

\* The last call was an execute that passed the status check and failed in
\* the wait or in the classification of its results.
FailedExecute ==
    /\ cpc = "idle"
    /\ last.op = "execute"
    /\ last.err \notin {NoError, "InterfaceError"}

\* Every execution that passed the status check has discarded the earlier
\* buffers by the time it waits; an execute that returned left only its own
\* results, with index 0 and position 0; an execute that failed left none,
\* and rowcount is -1.
ExecuteDiscards ==
    /\ cpc = "wait" =>
          results = <<>> /\ pgresult = NoResult /\ pos = 0 /\ iresult = 0
    /\ (Returned /\ last.op = "execute" /\ last.err = NoError) =>
          /\ results = last.input /\ pgresult = results[1]
          /\ iresult = 0 /\ pos = 0
    /\ FailedExecute =>
          /\ results = <<>> /\ pgresult = NoResult
          /\ rowcount = -1

\* C32 as stated: every execute that passes the status check discards the
\* buffers of the previous execute before it sends; if it succeeds the
\* cursor holds only the new results, with index 0 and position 0; if it
\* fails in the wait or in the classification, a following fetch raises a
\* programming error and rowcount is -1.
C32_ExecuteDiscards ==
    /\ []ExecuteDiscards
    /\ [][(FailedExecute /\ FetchStep) =>
             last'.err = "ProgrammingError"]_vars

\* C32, amended: the same, but of the fetches that follow a failed execute
\* only fetchone, fetchall and a fetchmany asked for at least one row raise
\* the programming error; fetchmany(0) returns an empty list.  None of them
\* returns a row.
C32_ExecuteDiscardsSized ==
    /\ []ExecuteDiscards
    /\ [][(FailedExecute /\ FetchStep) =>
             /\ last'.err = IF last'.op = "fetchmany" /\ last'.size = 0
                            THEN NoError ELSE "ProgrammingError"
             /\ last'.ret = <<>>]_vars

\* An execute failed on a fatal error result: the cursor holds nothing.
C32_Witness ==
    /\ FailedExecute
    /\ last.err = "DatabaseError" /\ last.from.status = "FATAL_ERROR"
    /\ results = <<>> /\ pgresult = NoResult /\ rowcount = -1

\* C33: with two callers on one connection, the compensating rollback of
\* tpc_recover undoes only a transaction that its own recovery query
\* opened, never one that the other caller's statement began between the
\* first status read of tpc_recover and its final status check.
C33_RollbackOwnTransaction ==
    [][(rpc = "rollback" /\ rpc' = "idle" /\ tstatus # IDLE
          /\ tstatus' = IDLE) => txby = "tpc_recover"]_vars

RECURSIVE Notifies(_)
Notifies(q) == IF q = <<>> THEN <<>> ELSE <<Notify(Head(q))>> \o Notifies(Tail(q))

\* C34: Connection.notifies holds the lock only while it waits for a batch:
\* whenever the consumer has the control (a Notify was yielded, or the
\* generator ended) the generator does not hold the lock; the messages
\* yielded so far and the ones of the batch still to come are the messages
\* received, in order, each once; no wait starts before the batch is
\* yielded in full; and the generator ends only with the error of a wait.
C34_NotifiesLock ==
    /\ npc \in {"none", "suspended", "acquire", "raised"} => lock # Consumer
    /\ npc = "wait" => lock = Consumer
    /\ nyield \o Notifies(nbatch) = Notifies(nrecv)
    /\ npc \in {"acquire", "wait"} => nbatch = <<>>
    /\ npc = "raised" <=> nerr # "none"
    /\ nerr \in {"none"} \cup ({wait(w[1], w[2]) : w \in WaitRuns} \ {"ok"})

\* A batch of two messages was received and its first message yielded; the
\* generator is suspended and another caller's operation holds the lock.
C34_Witness ==
    /\ npc = "suspended"
    /\ nrecv = <<"a", "b">> /\ nyield = <<Notify("a")>> /\ nbatch = <<"b">>
    /\ lock \in Threads \ {Consumer}

\* What a block that began with the active pipeline p at level l has done
\* once its body runs: inside pipeline mode a level is entered, the
\* transaction begun and a second level entered; outside it the
\* transaction is begun, and nothing else.
Began(p, l) ==
    IF p # NoPipe
    THEN << [ev |-> "enter_pipeline", pipeline |-> p, level |-> l + 1],
            [ev |-> "begin", pipeline |-> p, level |-> l + 1],
            [ev |-> "enter_pipeline", pipeline |-> p, level |-> l + 2] >>
    ELSE << [ev |-> "begin", pipeline |-> NoPipe, level |-> 0] >>

\* ... and what it does when the body is over, ending with the command end
Ended(p, l, end) ==
    IF p # NoPipe
    THEN << [ev |-> "exit_pipeline", pipeline |-> p, level |-> l + 1],
            [ev |-> end, pipeline |-> p, level |-> l + 1],
            [ev |-> "exit_pipeline", pipeline |-> p, level |-> l] >>
    ELSE << [ev |-> end, pipeline |-> NoPipe, level |-> 0] >>

\* C35: a transaction() block used while a pipeline is active enters a
\* pipeline level, begins the transaction and enters a second level, and
\* leaves them in the reverse order, so the begin and end commands of the
\* transaction are issued in pipeline mode; after the block, whether its
\* body returned or raised, the level is the one before it and the active
\* Pipeline is the same object.  Outside pipeline mode the block only
\* begins and ends the transaction.
C35_TransactionStraddles ==
    LET p == xbefore.pipeline
        l == xbefore.level
    IN  /\ xpc = "body" =>
              /\ p # NoPipe => l >= 1
              /\ xlog = Began(p, l)
              /\ Len(stack) = BodyDepth =>
                    /\ pipeline = p
                    /\ LevelOf(pipeline, level) = xlog[Len(xlog)].level
        /\ (xpc = "none" /\ xres \in {"none", "raised"} /\ xlog # <<>>) =>
              /\ xlog = Began(p, l) \o
                        Ended(p, l, IF xres = "raised" \/ xfr
                                    THEN "rollback" ELSE "commit")
              /\ xlog[Len(xlog)].level = l
              /\ xlog[Len(xlog)].pipeline = p

\* A block entered at level 1 of a pipeline was left by an exception: the
\* six steps are done, the pipeline is the same and at level 1 again.
C35_Witness ==
    /\ xpc = "none" /\ xres = "raised" /\ Len(xlog) = 6
    /\ xbefore.level = 1
    /\ pipeline = xbefore.pipeline /\ pipeline # NoPipe
    /\ level[pipeline] = 1

====
